---- MODULE Spec2Model ----
(***************************************************************************)
(* EvilCrow RF v2 URH bridge (src/SDR/urh_bridge.py): the RTL-TCP server   *)
(* thread (URHBridge.run or the launcher's accept loop, then               *)
(* handle_client and cleanup), the per-session streamer threads            *)
(* (stream_data), the serial device and the TCP clients.                   *)
(*                                                                         *)
(* Threads interleave freely.  The model has no clock: a timeout (the 1 s  *)
(* select, the 1 s accept of the launcher, the 2 s join) is a step that    *)
(* may be taken whenever the awaited event has not happened.               *)
(***************************************************************************)
EXTENDS Integers, Sequences, FiniteSets, TLC

(* ---------------------------------------------------------------- bounds *)
MaxSessions == 2
MaxBufLen == 11
MaxRx == 3
MaxWorkers == 2
MaxQueue == 2
MaxBytes == 4
MaxCount == 2
MaxTx == 3
MaxOut == 3
TE_SHORT == 250
TE_LONG == 500
EndGap == 2000
PreamblePairs == 32
DataBits == 61

(* ------------------------------------------------------ program constants *)
FrameLen == 5
CenterQ == 127
SilencePairs == 64
TunerType == 1
GainCount == 1
ChunkMax == 512
WorkerChunkMax == 256

Sessions == 1..MaxSessions
None == 0

VARIABLES
    mode,        \* "run": URHBridge.run; "launcher": SDRLauncherGUI._run_tool
    pc,          \* position of the server thread
    running,     \* self.running
    client,      \* self.client: None or the socket of session k
    nsess,       \* number of accept() calls that returned a client
    sockOpen,    \* sockOpen[k]: the accepted socket of session k is not closed
    serverOpen,  \* self.server is listening
    serOpen,     \* self.ser.is_open
    cst,         \* cst[k]: TCP client k: "idle", "conn" or "gone"
    wire,        \* wire[k]: the first bytes written to the socket of session k
    stream_t,    \* stream_t[k]: position of the streamer thread of session k
    iq_buf,      \* iq_buf[k]: the buffer streamer k is about to send
    sendTo,      \* sendTo[k]: the socket a blocked sendall of streamer k is on
    rx_stops,    \* rx_stops[k]: how often streamer k issued rx_stop
    stopFlag,    \* the launcher's _stop_flag
    intr,        \* KeyboardInterrupt was raised in the server thread
    escaped,     \* an exception left handle_client
    endCause,    \* what ended the command loop of the current session
    data,        \* the buffer of the last recv() of the command loop
    handed,      \* the frames that recv handed to handle_rtl_command
    \* one operation followed statement by statement (idle in Spec and
    \* LauncherSpec, which take these operations as single steps)
    upc,         \* position in that operation, "off" when none is followed
    rtl_data,    \* handle_rtl_command: its argument data
    ser_tx,      \* the lines written to the serial port, in order
    ser_rx,      \* the bytes waiting in the serial input buffer
    avail,       \* stream_data: avail
    chunk,       \* stream_data: raw
    sent,        \* stream_data: the buffers handed to sendall that went out
    resp_str,    \* connect: the decoded reply to the last command
    is_open,     \* the serial handle of the followed operation is open
    streaming,   \* EvilCrowSDR._streaming
    \* EvilCrowSDR: the recorded configuration and the setter call followed
    cfg_call,        \* << setter, argument >>, << >> when none is followed
    frequency_hz,    \* self.frequency_hz, in Hz
    modulation,      \* self.modulation
    bandwidth_khz,   \* self.bandwidth_khz, in tenths of a kHz
    data_rate_baud,  \* self.data_rate_baud, in hundredths of a baud
    \* EvilCrowSDR: the drain queue, its worker threads and read_raw
    rx_queue,        \* the chunks in self._rx_queue, oldest first
    wpc,             \* wpc[w]: position of worker thread w in _rx_worker
    wavail,          \* wavail[w]: its local avail
    wdata,           \* wdata[w]: its local data
    stream_thread,   \* self._stream_thread: None or a worker
    count,           \* read_raw: its argument count
    result,          \* read_raw: result, every byte taken from the queue
    ret,             \* read_raw: the bytes the last call returned
    nbytes,          \* how many bytes the device has delivered so far
    \* the command loop of handle_client reading a client's byte stream
    rpos,            \* how many bytes of the stream recv() has returned
    \* the launcher's tool threads
    sys_stdout,      \* sys.stdout
    tool_pc,         \* tool_pc[t]: position of the thread of tool t in _run_tool
    old_stdout,      \* old_stdout[t]: its local old_stdout
    \* the GNU Radio block: EvilCrowSource's queue and one work() call
    gr_pc,           \* position of the scheduler's thread in work/read_samples
    sample_queue,    \* the samples in self.sample_queue, oldest first
    work_n,          \* work: n = len(out)
    samples,         \* read_samples: samples
    arr,             \* read_samples: the array it returned
    out,             \* work: out = output_items[0]
    work_ret,        \* what the last work() returned, -1 before the first
    \* generate_test_sub.py: one generate_kia_v0_pulses call
    kia_pc,          \* its position
    counter,         \* its argument counter
    serial,          \* its argument serial
    button,          \* its argument button
    kia_data,        \* data, as its bits: kia_data[i] is bit i
    crc,             \* crc
    pulses,          \* pulses
    \* release_builder.py: one bump_version call
    bump_pc,         \* its position
    version,         \* its argument version, a text
    bump_type,       \* its argument bump_type
    parts,           \* parts
    bumped           \* the text it returned

cfgVars == <<cfg_call, frequency_hz, modulation, bandwidth_khz, data_rate_baud>>
rxVars == <<rx_queue, wpc, wavail, wdata, stream_thread, count, result, ret, nbytes>>
outVars == <<sys_stdout, tool_pc, old_stdout>>
grVars == <<gr_pc, sample_queue, work_n, samples, arr, out, work_ret>>
kiaVars == <<kia_pc, counter, serial, button, kia_data, crc, pulses>>
bumpVars == <<bump_pc, version, bump_type, parts, bumped>>
fnVars == <<grVars, kiaVars, bumpVars>>
libVarsButRpos == <<cfgVars, rxVars, outVars, fnVars>>
libVars == <<libVarsButRpos, rpos>>

unitVars == <<upc, rtl_data, ser_tx, ser_rx, avail, chunk, sent, resp_str, is_open,
              streaming, libVars>>

vars == <<mode, pc, running, client, nsess, sockOpen, serverOpen, serOpen, cst,
          wire, stream_t, iq_buf, sendTo, rx_stops, stopFlag, intr,
          escaped, endCause, data, handed, unitVars>>

\* the variables of the server, its streamers and its clients
bridgeVars == <<mode, pc, running, client, nsess, sockOpen, serverOpen, serOpen,
                cst, wire, stream_t, iq_buf, sendTo, rx_stops, stopFlag, intr,
                escaped, endCause, data, handed>>

srvVars == <<unitVars, mode, pc, running, client, nsess, sockOpen, serverOpen, stopFlag,
             intr, escaped, endCause, data, handed>>
strVars == <<stream_t, iq_buf, sendTo, rx_stops>>

(* ------------------------------------------------------------ pure parts *)
Take(s, n) == SubSeq(s, 1, IF n < Len(s) THEN n ELSE Len(s))

Min(a, b) == IF a < b THEN a ELSE b

\* struct.pack('>I', n): big-endian uint32
PackBE32(n) ==
    << (n \div 16777216) % 256, (n \div 65536) % 256, (n \div 256) % 256, n % 256 >>

\* b'RTL0'
Magic == << 82, 84, 76, 48 >>

\* header = b'RTL0' + struct.pack('>II', 1, 1)
header == Magic \o PackBE32(TunerType) \o PackBE32(GainCount)

\* an expansion with the I and Q bytes swapped
ExpandQI(raw) ==
    [i \in 1..(2 * Len(raw)) |-> IF i % 2 = 0 THEN raw[i \div 2] ELSE CenterQ]

\* iq_buf[i*2] = b ; iq_buf[i*2+1] = 127
ExpandIQ(raw) ==
    [i \in 1..(2 * Len(raw)) |-> IF i % 2 = 1 THEN raw[(i + 1) \div 2] ELSE CenterQ]

\* a silence buffer of zero bytes instead of the centre value
silenceZero == [i \in 1..(2 * SilencePairs) |-> 0]

\* silence = bytes([127, 127]) * 64
silence == [i \in 1..(2 * SilencePairs) |-> CenterQ]

\* Python's data[i:j] for 0 <= i, on a sequence indexed from 1
Slice(s, i, j) == SubSeq(s, i + 1, Min(j, Len(s)))

\* Python's range(0, stop, step) as the sequence of its values
RangeStep(stop, step) ==
    LET n == IF stop <= 0 THEN 0 ELSE (stop + step - 1) \div step
    IN  [k \in 1..n |-> (k - 1) * step]

\* for i in range(0, len(data) - 4, 5): ... data[i:i + 5]
FrameStarts(d) == RangeStep(Len(d) - (FrameLen - 1), FrameLen)

FramesOf(d) ==
    LET idx == FrameStarts(d)
    IN  [k \in 1..Len(idx) |-> Slice(d, idx[k], idx[k] + FrameLen)]

\* handle_rtl_command writes to the serial port for opcodes 0x01, 0x02, 0x04
WritesSerial(frame) == Len(frame) >= FrameLen /\ frame[1] \in {1, 2, 4}

(* --------------------------------------------------------------- inputs *)
\* the byte stream a client sends: set_freq, set_gain 150, an unknown opcode
CmdStream == << 1, 0, 6, 164, 80,  4, 0, 0, 0, 150,  255, 0, 0, 0, 1 >>

\* what one recv(1024) may return: a non-empty piece of the stream, here with
\* no frame and a remainder, one frame, and as many bytes as the bound allows
Buffers == { SubSeq(CmdStream, 1, n) : n \in {FrameLen - 1, FrameLen, MaxBufLen} }

\* what one ser.read(min(avail, 512)) may return
RawChunks == { << 200, 3, 0, 255, 1, 2 >> }


(* ----------------------------------------------------------------- Init *)
\* the worker threads an EvilCrowSDR may start, and the launcher's tools
Workers == 1..MaxWorkers
Tools == {"library", "urh", "gnuradio", "spectrum"}

\* EvilCrowSDR.__init__: the recorded defaults 433.92e6, 2, 650.0, 3793.72,
\* an empty queue and no worker thread
SdrDefaults ==
    /\ frequency_hz = 433920000
    /\ modulation = 2
    /\ bandwidth_khz = 6500
    /\ data_rate_baud = 379372
    /\ rx_queue = << >>
    /\ wpc = [w \in Workers |-> "none"]
    /\ wavail = [w \in Workers |-> 0]
    /\ wdata = [w \in Workers |-> << >>]
    /\ stream_thread = None

\* no read_raw was called and the device has delivered nothing
NoRead ==
    /\ count = 0
    /\ result = << >>
    /\ ret = << >>
    /\ nbytes = 0

\* the launcher before _launch: sys.stdout is the console, no tool thread
NoTools ==
    /\ sys_stdout = "console"
    /\ tool_pc = [t \in Tools |-> "idle"]
    /\ old_stdout = [t \in Tools |-> "unset"]

\* the GNU Radio block before its first work(): nothing queued, no buffer
NoWork ==
    /\ gr_pc = "idle"
    /\ sample_queue = << >>
    /\ work_n = 0
    /\ samples = << >>
    /\ arr = << >>
    /\ out = << >>
    /\ work_ret = -1

\* generate_kia_v0_pulses is not called
NoKia ==
    /\ kia_pc = "off"
    /\ counter = 0
    /\ serial = 0
    /\ button = 0
    /\ kia_data = << >>
    /\ crc = 0
    /\ pulses = << >>

\* bump_version is not called
NoBump ==
    /\ bump_pc = "off"
    /\ version = << >>
    /\ bump_type = ""
    /\ parts = << >>
    /\ bumped = << >>

\* no function outside the bridge and the library is followed
FnOff == NoWork /\ NoKia /\ NoBump

\* no setter and no read_raw is followed, no stream is read, no tool runs
LibOff ==
    /\ SdrDefaults
    /\ cfg_call = << >>
    /\ NoRead
    /\ rpos = 0
    /\ NoTools
    /\ FnOff

\* no operation is followed statement by statement
UnitOff(p) ==
    /\ LibOff
    /\ upc = p
    /\ rtl_data = << >>
    /\ ser_tx = << >>
    /\ ser_rx = << >>
    /\ avail = 0
    /\ chunk = << >>
    /\ sent = << >>
    /\ resp_str = << >>
    /\ is_open = FALSE
    /\ streaming = FALSE

\* URHBridge.__init__, then connect_device and start_server succeeded:
\* the serial port is open, the server socket listens, no client yet.
Serving(m) ==
    /\ mode = m
    /\ pc = "accept"
    /\ running = FALSE
    /\ client = None
    /\ nsess = 0
    /\ sockOpen = [k \in Sessions |-> FALSE]
    /\ serverOpen = TRUE
    /\ serOpen = TRUE
    /\ cst = [k \in Sessions |-> "idle"]
    /\ wire = [k \in Sessions |-> << >>]
    /\ stream_t = [k \in Sessions |-> "none"]
    /\ iq_buf = [k \in Sessions |-> << >>]
    /\ sendTo = [k \in Sessions |-> None]
    /\ rx_stops = [k \in Sessions |-> 0]
    /\ stopFlag = FALSE
    /\ intr = FALSE
    /\ escaped = FALSE
    /\ endCause = "none"
    /\ data = << >>
    /\ handed = << >>

Boot(m) == Serving(m) /\ UnitOff("off")

\* bytes appended to a socket; the model keeps the first WireKeep of them
WireKeep == Len(header)
SockWrite(k, buf) == [wire EXCEPT ![k] = Take(@ \o buf, WireKeep)]

(* ------------------------------------------------------------ TCP clients *)
\* a client connects: it waits in the listen backlog until accept() returns it
ClientConnect(k) ==
    /\ cst[k] = "idle"
    /\ serverOpen
    /\ IF k = 1 THEN TRUE ELSE cst[k - 1] # "idle"
    /\ cst' = [cst EXCEPT ![k] = "conn"]
    /\ UNCHANGED <<srvVars, strVars, serOpen, wire>>

\* a client closes or resets its connection (while the server still holds a
\* socket to it or has it in the backlog: later nobody can tell)
ClientGone(k) ==
    /\ cst[k] = "conn"
    /\ k > nsess \/ sockOpen[k] \/ \E j \in Sessions : sendTo[j] = k
    /\ cst' = [cst EXCEPT ![k] = "gone"]
    /\ UNCHANGED <<srvVars, strVars, serOpen, wire>>

(* ------------------------------------------- the accept loop (both forms) *)
\* client, addr = self.server.accept(); handle_client: self.client = client
Accept ==
    /\ pc = "accept"
    /\ nsess < MaxSessions
    /\ cst[nsess + 1] # "idle"
    /\ nsess' = nsess + 1
    /\ client' = nsess + 1
    /\ sockOpen' = [sockOpen EXCEPT ![nsess + 1] = TRUE]
    /\ pc' = "nodelay"
    /\ endCause' = "none"
    /\ UNCHANGED <<unitVars, mode, running, serverOpen, serOpen, cst, wire, strVars,
                   stopFlag, intr, escaped, data, handed>>

\* launcher: accept() timed out after 1 s (socket.timeout: continue) and
\* `while not self._stop_flag` ends the loop
LauncherStop ==
    /\ mode = "launcher"
    /\ pc = "accept"
    /\ stopFlag
    /\ pc' = "cleanup"
    /\ UNCHANGED <<unitVars, mode, running, client, nsess, sockOpen, serverOpen, serOpen, cst,
                   wire, strVars, stopFlag, intr, escaped, endCause, data,
                   handed>>

\* launcher GUI: _stop sets self._stop_flag = True
StopRequest ==
    /\ mode = "launcher"
    /\ ~stopFlag
    /\ pc # "done"
    /\ stopFlag' = TRUE
    /\ UNCHANGED <<unitVars, mode, pc, running, client, nsess, sockOpen, serverOpen, serOpen,
                   cst, wire, strVars, intr, escaped, endCause, data, handed>>

(* ------------------------------------------------------- handle_client *)
\* client.setsockopt(IPPROTO_TCP, TCP_NODELAY, 1): raises OSError on a socket
\* whose peer is gone; the try has no except, so the finally block runs next
SetNoDelay ==
    /\ pc = "nodelay"
    /\ \/ pc' = "header"
       \/ cst[client] = "gone" /\ pc' = "finally_unbound"
    /\ UNCHANGED <<unitVars, mode, running, client, nsess, sockOpen, serverOpen, serOpen, cst,
                   wire, strVars, stopFlag, intr, escaped, endCause, data,
                   handed>>

\* client.sendall(header); time.sleep(0.1) follows at pc = "sleep"
SendHeader ==
    /\ pc = "header"
    /\ \/ /\ wire' = SockWrite(client, header)
          /\ pc' = "sleep"
       \/ /\ cst[client] = "gone"
          /\ pc' = "finally_unbound"
          /\ wire' = wire
    /\ UNCHANGED <<unitVars, mode, running, client, nsess, sockOpen, serverOpen, serOpen, cst,
                   strVars, stopFlag, intr, escaped, endCause, data, handed>>

\* self.running = True; stream_t = Thread(target=self.stream_data); start()
StartStreamer ==
    /\ pc = "sleep"
    /\ running' = TRUE
    /\ stream_t' = [stream_t EXCEPT ![nsess] = "rx_start"]
    /\ pc' = "select"
    /\ UNCHANGED <<unitVars, mode, client, nsess, sockOpen, serverOpen, serOpen, cst, wire,
                   iq_buf, sendTo, rx_stops, stopFlag, intr, escaped,
                   endCause, data, handed>>

\* leaving the command loop of the current session for the finally block
LeaveLoop(cause) ==
    /\ pc' = "finally"
    /\ endCause' = cause

\* a command loop without `if not stream_t.is_alive(): break`
SelectTimeoutNoCheck ==
    /\ pc = "select"
    /\ running
    /\ cst[nsess] = "conn"
    /\ UNCHANGED vars

\* select() timed out after 1 s with nothing to read;
\* if not stream_t.is_alive(): break
SelectTimeout ==
    /\ pc = "select"
    /\ running
    /\ cst[nsess] = "conn"
    /\ IF stream_t[nsess] = "dead"
         THEN LeaveLoop("streamer")
         ELSE UNCHANGED <<pc, endCause>>
    /\ UNCHANGED <<unitVars, mode, running, client, nsess, sockOpen, serverOpen, serOpen, cst,
                   wire, strVars, stopFlag, intr, escaped, data, handed>>

\* data = client.recv(1024) on a closed connection: b'' (break) or
\* ConnectionResetError (break)
RecvGone ==
    /\ pc = "select"
    /\ running
    /\ cst[nsess] = "gone"
    /\ \/ LeaveLoop("eof")
       \/ LeaveLoop("sockerr")
    /\ UNCHANGED <<unitVars, mode, running, client, nsess, sockOpen, serverOpen, serOpen, cst,
                   wire, strVars, stopFlag, intr, escaped, data, handed>>

\* data = client.recv(1024); for i in range(0, len(data) - 4, 5):
\*     self.handle_rtl_command(data[i:i + 5])
\* n frames are handed over; a serial write that raises SerialException (an
\* OSError) in frame n is caught by `except (ConnectionResetError, OSError)`
RecvData(d) ==
    /\ pc = "select"
    /\ running
    /\ cst[nsess] = "conn"
    /\ data' = d
    /\ LET frames == FramesOf(d)
       IN  \/ /\ handed' = frames
              /\ pc' = "alive"
              /\ endCause' = endCause
           \/ \E n \in 1..Len(frames) :
                 /\ WritesSerial(frames[n])
                 /\ handed' = SubSeq(frames, 1, n)
                 /\ LeaveLoop("serial")
    /\ UNCHANGED <<unitVars, mode, running, client, nsess, sockOpen, serverOpen, serOpen, cst,
                   wire, strVars, stopFlag, intr, escaped>>

\* after the frames: if not stream_t.is_alive(): break
CheckAlive ==
    /\ pc = "alive"
    /\ data' = << >>
    /\ handed' = << >>
    /\ IF stream_t[nsess] = "dead"
         THEN LeaveLoop("streamer")
         ELSE pc' = "select" /\ endCause' = endCause
    /\ UNCHANGED <<unitVars, mode, running, client, nsess, sockOpen, serverOpen, serOpen, cst,
                   wire, strVars, stopFlag, intr, escaped>>

\* finally: self.running = False; if stream_t.is_alive(): join(timeout=2.0)
Finally ==
    /\ pc = "finally"
    /\ running' = FALSE
    /\ data' = << >>
    /\ handed' = << >>
    /\ pc' = IF stream_t[nsess] = "dead" THEN "close" ELSE "join"
    /\ UNCHANGED <<unitVars, mode, client, nsess, sockOpen, serverOpen, serOpen, cst, wire,
                   strVars, stopFlag, intr, escaped, endCause>>

\* stream_t.join(timeout=2.0) returns: the thread ended, or the 2 s passed
JoinReturns ==
    /\ pc = "join"
    /\ pc' = "close"
    /\ UNCHANGED <<unitVars, mode, running, client, nsess, sockOpen, serverOpen, serOpen, cst,
                   wire, strVars, stopFlag, intr, escaped, endCause, data,
                   handed>>

\* a teardown that forgets client.close()
CloseClientLeak ==
    /\ pc = "close"
    /\ client' = None
    /\ pc' = IF intr \/ (mode = "launcher" /\ stopFlag) THEN "cleanup" ELSE "accept"
    /\ UNCHANGED <<unitVars, mode, running, nsess, sockOpen, serverOpen, serOpen, cst, wire,
                   strVars, stopFlag, intr, escaped, endCause, data, handed>>

\* client.close(); self.client = None; then back in accept(), unless a
\* KeyboardInterrupt is propagating or the launcher's `while not
\* self._stop_flag` ends the loop
CloseClient ==
    /\ pc = "close"
    /\ sockOpen' = [sockOpen EXCEPT ![nsess] = FALSE]
    /\ client' = None
    /\ pc' = IF intr \/ (mode = "launcher" /\ stopFlag) THEN "cleanup" ELSE "accept"
    /\ UNCHANGED <<unitVars, mode, running, nsess, serverOpen, serOpen, cst, wire, strVars, stopFlag, intr, escaped, endCause, data, handed>>

\* the finally block after a failed handshake: self.running = False, then
\* stream_t.is_alive() raises UnboundLocalError (stream_t was never bound);
\* client.close() and self.client = None are skipped and the exception leaves
\* handle_client (run: finally cleanup; launcher: except Exception, break)
FinallyUnbound ==
    /\ pc = "finally_unbound"
    /\ running' = FALSE
    /\ escaped' = (escaped \/ ~intr)
    /\ pc' = "cleanup"
    /\ UNCHANGED <<unitVars, mode, client, nsess, sockOpen, serverOpen, serOpen, cst, wire,
                   strVars, stopFlag, intr, endCause, data, handed>>

(* ------------------------------------------------- shutdown and cleanup *)
\* Ctrl-C: KeyboardInterrupt raised in the server thread of URHBridge.run while
\* it blocks in accept(), time.sleep(0.1), select() or join().  No handler of
\* handle_client catches it: its finally block runs and run() ends in cleanup.
KeyboardInterrupt ==
    /\ mode = "run"
    /\ ~intr
    /\ intr' = TRUE
    /\ \/ pc = "accept" /\ pc' = "cleanup" /\ endCause' = endCause
       \/ pc = "sleep" /\ pc' = "finally_unbound" /\ endCause' = endCause
       \/ pc = "select" /\ LeaveLoop("intr")
       \/ pc = "join" /\ pc' = "cleanup" /\ endCause' = endCause
    /\ UNCHANGED <<unitVars, mode, running, client, nsess, sockOpen, serverOpen, serOpen, cst,
                   wire, strVars, stopFlag, escaped, data, handed>>

\* cleanup(): self.running = False; close self.client if set; close the server;
\* if the port is open: write rx_stop, then close it, both in one try, so a
\* failing write skips the close.  run() then returns and the process ends:
\* its streamer threads are daemon threads and end with it.  The launcher's
\* process lives on, and so do the streamer threads.
cleanup ==
    /\ pc = "cleanup"
    /\ running' = FALSE
    /\ sockOpen' = IF client # None THEN [sockOpen EXCEPT ![client] = FALSE]
                                    ELSE sockOpen
    /\ serverOpen' = FALSE
    /\ \/ serOpen /\ serOpen' = FALSE     \* rx_stop written, port closed
       \/ serOpen' = serOpen                \* nothing to do, or the write raised
    /\ pc' = "done"
    /\ IF mode = "run"
         THEN /\ stream_t' = [k \in Sessions |->
                     IF stream_t[k] \in {"none", "dead"} THEN stream_t[k] ELSE "killed"]
              /\ iq_buf' = [k \in Sessions |-> << >>]
              /\ sendTo' = [k \in Sessions |-> None]
         ELSE UNCHANGED <<stream_t, iq_buf, sendTo>>
    /\ UNCHANGED <<unitVars, mode, client, nsess, cst, wire, rx_stops, stopFlag, intr,
                   escaped, endCause, data, handed>>

(* --------------------------------------------------------- stream_data *)
\* self.ser.write(b'rx_start\n'); time.sleep(0.2); self.ser.reset_input_buffer()
\* These three lines are outside the try: an exception in one of them ends
\* the thread without the finally block.
RxStart(k) ==
    /\ stream_t[k] = "rx_start"
    /\ \/ serOpen /\ stream_t' = [stream_t EXCEPT ![k] = "loop"]
       \/ stream_t' = [stream_t EXCEPT ![k] = "dead"]
    /\ UNCHANGED <<srvVars, serOpen, cst, wire, iq_buf, sendTo, rx_stops>>

\* the streamer leaves its loop for the finally block: "finally" after the
\* loop condition or a break, "finally_serial" with a SerialException of
\* in_waiting / read propagating, "finally_attr" with an AttributeError
StreamEnds(k, where) ==
    /\ stream_t' = [stream_t EXCEPT ![k] = where]
    /\ iq_buf' = [iq_buf EXCEPT ![k] = << >>]

\* while self.running and self.client: avail = self.ser.in_waiting; then
\* raw = self.ser.read(min(avail, 512)) and iq_buf, or the silence buffer
LoopTop(k) ==
    /\ stream_t[k] = "loop"
    /\ IF running /\ client # None
         THEN \/ /\ serOpen      \* avail > 0 and read returned raw
                 /\ \E raw \in RawChunks :
                       iq_buf' = [iq_buf EXCEPT ![k] = ExpandIQ(raw)]
                 /\ stream_t' = [stream_t EXCEPT ![k] = "send"]
              \/ /\ serOpen      \* avail > 0 and read returned b'': next iteration
                 /\ UNCHANGED <<iq_buf, stream_t>>
              \/ /\ serOpen      \* avail = 0
                 /\ iq_buf' = [iq_buf EXCEPT ![k] = silence]
                 /\ stream_t' = [stream_t EXCEPT ![k] = "send"]
              \/ StreamEnds(k, "finally_serial")
         ELSE StreamEnds(k, "finally")
    /\ UNCHANGED <<srvVars, serOpen, cst, wire, sendTo, rx_stops>>

\* self.client.sendall(iq_buf): self.client is read again here
SendAll(k) ==
    /\ stream_t[k] = "send"
    /\ IF client = None
         THEN /\ StreamEnds(k, "finally_attr")   \* None has no sendall
              /\ UNCHANGED <<wire, sendTo>>
         ELSE \/ /\ sockOpen[client]     \* all bytes went out
                 /\ wire' = SockWrite(client, iq_buf[k])
                 /\ stream_t' = [stream_t EXCEPT ![k] = "loop"]
                 /\ iq_buf' = [iq_buf EXCEPT ![k] = << >>]
                 /\ sendTo' = sendTo
              \/ /\ ~sockOpen[client] \/ cst[client] = "gone"
                 /\ StreamEnds(k, "finally")     \* BrokenPipeError / OSError: break
                 /\ UNCHANGED <<wire, sendTo>>
              \/ /\ sockOpen[client] /\ cst[client] = "conn"
                 /\ stream_t' = [stream_t EXCEPT ![k] = "blocked"]
                 /\ sendTo' = [sendTo EXCEPT ![k] = client]
                 /\ UNCHANGED <<wire, iq_buf>>
    /\ UNCHANGED <<srvVars, serOpen, cst, rx_stops>>

\* a sendall blocked on a full send buffer goes on when the client reads
SendResumes(k) ==
    /\ stream_t[k] = "blocked"
    /\ cst[sendTo[k]] = "conn"
    /\ wire' = SockWrite(sendTo[k], iq_buf[k])
    /\ stream_t' = [stream_t EXCEPT ![k] = "loop"]
    /\ iq_buf' = [iq_buf EXCEPT ![k] = << >>]
    /\ sendTo' = [sendTo EXCEPT ![k] = None]
    /\ UNCHANGED <<srvVars, serOpen, cst, rx_stops>>

\* a blocked sendall fails once the peer is gone
SendFails(k) ==
    /\ stream_t[k] = "blocked"
    /\ cst[sendTo[k]] = "gone"
    /\ StreamEnds(k, "finally")
    /\ sendTo' = [sendTo EXCEPT ![k] = None]
    /\ UNCHANGED <<srvVars, serOpen, cst, wire, rx_stops>>

\* finally: try: self.ser.write(b'rx_stop\n') except Exception: pass
\* rx_stops counts the command as issued, whether or not the write raised
RxStop(k) ==
    /\ stream_t[k] \in {"finally", "finally_serial", "finally_attr"}
    /\ rx_stops' = [rx_stops EXCEPT ![k] = @ + 1]
    /\ stream_t' = [stream_t EXCEPT ![k] = "dead"]
    /\ UNCHANGED <<srvVars, serOpen, cst, wire, iq_buf, sendTo>>

(* ------------------------------------------------------- specifications *)
\* the steps the server thread takes by itself
Server ==
    \/ Accept \/ SetNoDelay \/ SendHeader \/ StartStreamer
    \/ SelectTimeout \/ RecvGone \/ CheckAlive
    \/ Finally \/ JoinReturns \/ CloseClient \/ FinallyUnbound \/ cleanup

Streamer(k) == RxStart(k) \/ LoopTop(k) \/ SendAll(k) \/ SendFails(k) \/ RxStop(k)

\* the steps that wait for a client to act: connect, send commands, read the
\* stream, close
Clients ==
    \/ \E k \in Sessions : ClientConnect(k) \/ ClientGone(k) \/ SendResumes(k)
    \/ \E d \in Buffers : RecvData(d)

Threads == Server \/ Clients \/ (\E k \in Sessions : Streamer(k))

\* the scheduler runs every thread that can take a step; what clients and the
\* user do (connect, send, read, close, stop, Ctrl-C) is not forced
Fairness == WF_vars(Server) /\ \A k \in Sessions : WF_vars(Streamer(k))

\* python urh_bridge.py: main() calls URHBridge.run
Init == Boot("run")

Next == Threads \/ KeyboardInterrupt

Spec == Init /\ [][Next]_vars

FairSpec == Spec /\ Fairness

\* the launcher's 'urh' tool: _run_tool runs the accept loop in a GUI thread
LauncherInit == Boot("launcher")

LauncherNext == Threads \/ LauncherStop \/ StopRequest

LauncherSpec == LauncherInit /\ [][LauncherNext]_vars

FairLauncherSpec == LauncherSpec /\ Fairness /\ WF_vars(LauncherStop)

(* =================================================== handle_rtl_command *)
\* Texts are sequences of ASCII codes.  A Python int is held as the sequence
\* of its decimal digits, most significant first, so that the whole uint32
\* range stays exact.
Front(s) == SubSeq(s, 1, Len(s) - 1)

RECURSIVE Digits(_)
Digits(n) == IF n < 10 THEN << n >> ELSE Digits(n \div 10) \o << n % 10 >>

\* the digits of ds * m + a
RECURSIVE MulAdd(_, _, _)
MulAdd(ds, m, a) ==
    IF ds = << >>
      THEN IF a = 0 THEN << >> ELSE Digits(a)
      ELSE LET v == ds[Len(ds)] * m + a
           IN  MulAdd(Front(ds), m, v \div 10) \o << v % 10 >>

\* the digits of ds // d and the remainder, by long division from the left
RECURSIVE DivMod(_, _, _, _)
DivMod(ds, d, q, r) ==
    IF ds = << >>
      THEN << q, r >>
      ELSE LET v == r * 10 + ds[1]
           IN  DivMod(Tail(ds), d,
                      IF q = << >> /\ v \div d = 0 THEN q ELSE q \o << v \div d >>,
                      v % d)

FloorDiv(ds, d) ==
    LET q == DivMod(ds, d, << >>, 0)[1]
    IN  IF q = << >> THEN << 0 >> ELSE q

\* a little-endian reading of the four parameter bytes
UnpackLE32(b) == MulAdd(MulAdd(MulAdd(Digits(b[4]), 256, b[3]), 256, b[2]), 256, b[1])

\* struct.unpack('>I', data[1:5])[0]
UnpackBE32(b) == MulAdd(MulAdd(MulAdd(Digits(b[1]), 256, b[2]), 256, b[3]), 256, b[4])

\* a gain rounded to the nearest integer instead of param // 10
GainRounded(param) == FloorDiv(MulAdd(param, 1, 5), 10)

\* gain = param // 10
Gain(param) == FloorDiv(param, 10)

\* f'{n}': the decimal text of an int
Str(ds) == [i \in 1..Len(ds) |-> 48 + ds[i]]

\* 'set_freq '
T_set_freq == << 115, 101, 116, 95, 102, 114, 101, 113, 32 >>
\* 'set_sample_rate '
T_set_sample_rate == << 115, 101, 116, 95, 115, 97, 109, 112, 108, 101, 95, 114, 97, 116, 101, 32 >>
\* 'set_gain '
T_set_gain == << 115, 101, 116, 95, 103, 97, 105, 110, 32 >>
\* '\n'
NL == << 10 >>

\* the line handle_rtl_command writes for a frame, << >> if it writes none
LineOf(d) ==
    LET cmd == d[1]
        param == UnpackBE32(Slice(d, 1, 5))
    IN  CASE cmd = 1 -> T_set_freq \o Str(param) \o NL
          [] cmd = 2 -> T_set_sample_rate \o Str(param) \o NL
          [] cmd = 4 -> T_set_gain \o Str(Gain(param)) \o NL
          [] OTHER -> << >>

\* the opcodes and the parameter bytes of the frames tried
Opcodes == {0, 1, 2, 4, 5, 255}
ParamBytes ==
    { << a, b, c, d >> : a, b, c, d \in {0, 1, 255} }
      \cup { << 0, 0, 0, n >> : n \in 2..10 }
      \cup { << 0, 6, 164, 80 >>, << 25, 221, 24, 0 >>, << 0, 3, 208, 144 >>,
             << 0, 0, 0, 150 >>, << 0, 0, 0, 159 >>, << 127, 255, 255, 255 >>,
             << 128, 0, 0, 0 >> }
Frames == { << c >> \o p : c \in Opcodes, p \in ParamBytes }

\* what handle_rtl_command may be called with: a frame, or less than one
RtlArgs == Frames \cup { << >>, << 1 >>, << 4, 0, 0, 0 >> }

\* the command loop is about to call handle_rtl_command(data)
CmdInit ==
    /\ Serving("run")
    /\ upc = "call"
    /\ rtl_data \in RtlArgs
    /\ ser_tx = << >>
    /\ ser_rx = << >>
    /\ avail = 0
    /\ chunk = << >>
    /\ sent = << >>
    /\ resp_str = << >>
    /\ is_open = TRUE
    /\ streaming = FALSE
    /\ LibOff

\* a handle_rtl_command that answers opcode 0x05 with a serial write
handle_rtl_command_gain_mode ==
    /\ upc = "call"
    /\ upc' = "returned"
    /\ ser_tx' = IF Len(rtl_data) >= FrameLen /\ rtl_data[1] \in {1, 2, 4, 5}
                   THEN Append(ser_tx, T_set_gain \o NL)
                   ELSE ser_tx
    /\ UNCHANGED <<bridgeVars, libVars, rtl_data, ser_rx, avail, chunk, sent, resp_str,
                   is_open, streaming>>

\* handle_rtl_command(data): if len(data) < 5: return; opcodes 0x01, 0x02 and
\* 0x04 write one line to the serial port, 0x05 passes, any other is logged.
\* self.ser.write may raise SerialException, with the line out or not.
handle_rtl_command ==
    /\ upc = "call"
    /\ IF Len(rtl_data) >= FrameLen /\ WritesSerial(rtl_data)
         THEN \/ /\ ser_tx' = Append(ser_tx, LineOf(rtl_data))
                 /\ upc' = "returned"
              \/ /\ ser_tx' \in {ser_tx, Append(ser_tx, LineOf(rtl_data))}
                 /\ upc' = "raised"
         ELSE /\ ser_tx' = ser_tx
              /\ upc' = "returned"
    /\ UNCHANGED <<bridgeVars, libVars, rtl_data, ser_rx, avail, chunk, sent, resp_str,
                   is_open, streaming>>

CmdNext == handle_rtl_command

CmdSpec == CmdInit /\ [][CmdNext]_vars

(* ============================================== one streamer, by statement *)
\* stream_data of the streamer of an active session, statement by statement:
\* upc is "loop" (the while test), "poll" (in_waiting), "read", "send",
\* "sent" (sleep and progress log), "finally" or "ended".

\* 'rx_stop\n'
T_rx_stop == << 114, 120, 95, 115, 116, 111, 112, 10 >>

\* the bytes the device delivers
RxBytes == {0, 127, 255}

\* more bytes than one read takes
LongRx == [i \in 1..(ChunkMax + 1) |-> i % 256]

\* session 1 is active: header sent, rx_start done, the server in select()
InSession ==
    /\ mode = "run"
    /\ pc = "select"
    /\ running = TRUE
    /\ client = 1
    /\ nsess = 1
    /\ sockOpen = [k \in Sessions |-> k = 1]
    /\ serverOpen = TRUE
    /\ serOpen = TRUE
    /\ cst = [k \in Sessions |-> IF k = 1 THEN "conn" ELSE "idle"]
    /\ wire = [k \in Sessions |-> IF k = 1 THEN header ELSE << >>]
    /\ stream_t = [k \in Sessions |-> IF k = 1 THEN "loop" ELSE "none"]
    /\ iq_buf = [k \in Sessions |-> << >>]
    /\ sendTo = [k \in Sessions |-> None]
    /\ rx_stops = [k \in Sessions |-> 0]
    /\ stopFlag = FALSE
    /\ intr = FALSE
    /\ escaped = FALSE
    /\ endCause = "none"
    /\ data = << >>
    /\ handed = << >>

\* the streamer of that session is at the top of its loop
IterInit ==
    /\ InSession
    /\ upc = "loop"
    /\ rtl_data = << >>
    /\ ser_tx = << >>
    /\ ser_rx \in {<< >>, LongRx}
    /\ avail = 0
    /\ chunk = << >>
    /\ sent = << >>
    /\ resp_str = << >>
    /\ is_open = TRUE
    /\ streaming = FALSE
    /\ LibOff

\* the buffer the iteration hands to sendall: iq_buf, or silence
IterBuf == IF avail > 0 THEN ExpandIQ(chunk) ELSE silence

\* the CC1101 delivers a byte into the serial input buffer
DeviceByte ==
    /\ upc \in {"loop", "poll", "read", "send", "sent"}
    /\ Len(ser_rx) < MaxRx
    /\ \E b \in RxBytes : ser_rx' = Append(ser_rx, b)
    /\ UNCHANGED <<bridgeVars, libVars, upc, rtl_data, ser_tx, avail, chunk, sent, resp_str,
                   is_open, streaming>>

\* another thread empties the input buffer: self.ser.reset_input_buffer() of
\* a streamer thread that is just starting
InputReset ==
    /\ upc \in {"poll", "read"}
    /\ ser_rx # << >>
    /\ ser_rx' = << >>
    /\ UNCHANGED <<bridgeVars, libVars, upc, rtl_data, ser_tx, avail, chunk, sent, resp_str,
                   is_open, streaming>>

\* handle_client's finally: self.running = False
Cancel ==
    /\ upc \in {"loop", "poll", "read", "send", "sent"}
    /\ running
    /\ running' = FALSE
    /\ pc' = "join"
    /\ UNCHANGED <<unitVars, mode, client, nsess, sockOpen, serverOpen, serOpen, cst,
                   wire, strVars, stopFlag, intr, escaped, endCause, data, handed>>

\* while self.running and self.client:
IterLoopTest ==
    /\ upc = "loop"
    /\ upc' = IF running /\ client # None THEN "poll" ELSE "finally"
    /\ sent' = << >>
    /\ UNCHANGED <<bridgeVars, libVars, rtl_data, ser_tx, ser_rx, avail, chunk, resp_str,
                   is_open, streaming>>

\* avail = self.ser.in_waiting; if avail > 0: ... else: silence
IterPoll ==
    /\ upc = "poll"
    /\ \/ /\ avail' = Len(ser_rx)
          /\ upc' = IF Len(ser_rx) > 0 THEN "read" ELSE "send"
       \/ /\ avail' = avail              \* SerialException
          /\ upc' = "finally"
    /\ UNCHANGED <<bridgeVars, libVars, rtl_data, ser_tx, ser_rx, chunk, sent, resp_str,
                   is_open, streaming>>

\* raw = self.ser.read(min(avail, 512)); if raw: iq_buf = ...
IterRead ==
    /\ upc = "read"
    /\ \/ /\ chunk' = Take(ser_rx, Min(avail, ChunkMax))
          /\ ser_rx' = SubSeq(ser_rx, Len(chunk') + 1, Len(ser_rx))
          /\ upc' = IF chunk' # << >> THEN "send" ELSE "loop"
       \/ /\ UNCHANGED <<chunk, ser_rx>>    \* SerialException
          /\ upc' = "finally"
    /\ UNCHANGED <<bridgeVars, libVars, rtl_data, ser_tx, avail, sent, resp_str, is_open,
                   streaming>>

\* self.client.sendall(iq_buf) / self.client.sendall(silence);
\* except (BrokenPipeError, OSError): break
IterSend ==
    /\ upc = "send"
    /\ \/ /\ sent' = << IterBuf >>
          /\ upc' = "sent"
       \/ /\ sent' = sent
          /\ upc' = "finally"
    /\ UNCHANGED <<bridgeVars, libVars, rtl_data, ser_tx, ser_rx, avail, chunk, resp_str,
                   is_open, streaming>>

\* time.sleep(0.005) after silence, the progress log, and the next iteration
IterNext ==
    /\ upc = "sent"
    /\ upc' = "loop"
    /\ UNCHANGED <<bridgeVars, libVars, rtl_data, ser_tx, ser_rx, avail, chunk, sent,
                   resp_str, is_open, streaming>>

\* finally: self.ser.write(b'rx_stop\n')
IterRxStop ==
    /\ upc = "finally"
    /\ ser_tx' = Append(ser_tx, T_rx_stop)
    /\ upc' = "ended"
    /\ UNCHANGED <<bridgeVars, libVars, rtl_data, ser_rx, avail, chunk, sent, resp_str,
                   is_open, streaming>>

IterStep ==
    \/ IterLoopTest \/ IterPoll \/ IterRead \/ IterSend \/ IterNext \/ IterRxStop
    \/ DeviceByte \/ InputReset \/ Cancel

IterSpec == IterInit /\ [][IterStep]_vars

(* ================================================ connect, start and close *)
\* URHBridge.run up to its first accept() (connect_device, start_server), and
\* an EvilCrowSDR from its constructor (_connect) through start_rx to close,
\* statement by statement.
\* 'sdr_enable\n'
T_sdr_enable == << 115, 100, 114, 95, 101, 110, 97, 98, 108, 101, 10 >>
\* 'board_id_read\n'
T_board_id_read == << 98, 111, 97, 114, 100, 95, 105, 100, 95, 114, 101, 97, 100, 10 >>
\* 'set_freq 433920000\n'
T_cfg_freq == << 115, 101, 116, 95, 102, 114, 101, 113, 32, 52, 51, 51, 57, 50, 48, 48, 48, 48, 10 >>
\* 'set_sample_rate 250000\n'
T_cfg_rate == << 115, 101, 116, 95, 115, 97, 109, 112, 108, 101, 95, 114, 97, 116, 101, 32, 50, 53, 48, 48, 48, 48, 10 >>
\* 'set_gain 15\n'
T_cfg_gain == << 115, 101, 116, 95, 103, 97, 105, 110, 32, 49, 53, 10 >>
\* 'rx_start\n'
T_rx_start == << 114, 120, 95, 115, 116, 97, 114, 116, 10 >>
\* 'sdr_disable\n'
T_sdr_disable == << 115, 100, 114, 95, 100, 105, 115, 97, 98, 108, 101, 10 >>
\* 'HACKRF'
T_HACKRF == << 72, 65, 67, 75, 82, 70 >>
\* 'SUCCESS'
T_SUCCESS == << 83, 85, 67, 67, 69, 83, 83 >>

\* what the device may answer to a command: 'HACKRF_SUCCESS', the same in
\* lower case, 'HACKRF_ERROR', a banner without the marker, a cut-off marker,
\* and nothing at all
Replies ==
    { << 72, 65, 67, 75, 82, 70, 95, 83, 85, 67, 67, 69, 83, 83 >>,
      << 104, 97, 99, 107, 114, 102, 95, 115, 117, 99, 99, 101, 115, 115 >>,
      << 72, 65, 67, 75, 82, 70, 95, 69, 82, 82, 79, 82 >>,
      << 69, 118, 105, 108, 67, 114, 111, 119, 32, 82, 70, 32, 118, 50 >>,
      << 72, 65, 67, 75, 82 >>,
      << >> }

\* str.upper() on ASCII text
Upper(txt) == [i \in 1..Len(txt) |-> IF txt[i] \in 97..122 THEN txt[i] - 32 ELSE txt[i]]

\* pat in txt
Contains(txt, pat) ==
    \E i \in 0..(Len(txt) - Len(pat)) : SubSeq(txt, i + 1, i + Len(pat)) = pat

\* self.ser.write(line) that raised SerialException: the line went out or not
WriteRaised(line) == ser_tx' \in {ser_tx, Append(ser_tx, line)}

\* python urh_bridge.py before run(), or a caller about to construct an
\* EvilCrowSDR: no port open, no listener
NoBridge ==
    /\ mode = "run"
    /\ pc = "start"
    /\ running = FALSE
    /\ client = None
    /\ nsess = 0
    /\ sockOpen = [k \in Sessions |-> FALSE]
    /\ serverOpen = FALSE
    /\ serOpen = FALSE
    /\ cst = [k \in Sessions |-> "idle"]
    /\ wire = [k \in Sessions |-> << >>]
    /\ stream_t = [k \in Sessions |-> "none"]
    /\ iq_buf = [k \in Sessions |-> << >>]
    /\ sendTo = [k \in Sessions |-> None]
    /\ rx_stops = [k \in Sessions |-> 0]
    /\ stopFlag = FALSE
    /\ intr = FALSE
    /\ escaped = FALSE
    /\ endCause = "none"
    /\ data = << >>
    /\ handed = << >>

DeviceInit == NoBridge /\ (UnitOff("run") \/ UnitOff("sdr_init"))

\* what the steps of connect_device and start_server leave alone
ConnFrame ==
    UNCHANGED <<mode, running, client, nsess, sockOpen, cst, wire, strVars,
                stopFlag, intr, escaped, endCause, data, handed, rtl_data,
                ser_rx, avail, chunk, sent, is_open, streaming, libVars>>

\* self.ser = serial.Serial(port, 115200, timeout=0.1); sleep;
\* reset_input_buffer.  An exception makes connect_device return False.
ConnOpen ==
    /\ upc = "run"
    /\ \/ serOpen' = TRUE /\ upc' = "enable"
       \/ serOpen' = serOpen /\ upc' = "io_failed"
    /\ UNCHANGED <<pc, serverOpen, ser_tx, resp_str>>
    /\ ConnFrame

\* self.ser.write(b'sdr_enable\n'); sleep; read the reply; whatever it is,
\* 'Trying board_id_read anyway...'
ConnEnable ==
    /\ upc = "enable"
    /\ \/ /\ ser_tx' = Append(ser_tx, T_sdr_enable)
          /\ \E r \in Replies : resp_str' = r
          /\ upc' = "identify"
       \/ /\ WriteRaised(T_sdr_enable)
          /\ resp_str' = resp_str
          /\ upc' = "io_failed"
    /\ UNCHANGED <<pc, serverOpen, serOpen>>
    /\ ConnFrame

\* self.ser.write(b'board_id_read\n'); sleep; read the reply;
\* if 'HACKRF' not in resp_str.upper(): return False
ConnIdentify ==
    /\ upc = "identify"
    /\ \/ /\ ser_tx' = Append(ser_tx, T_board_id_read)
          /\ \E r \in Replies :
                /\ resp_str' = r
                /\ upc' = IF Contains(Upper(r), T_HACKRF) THEN "config" ELSE "id_failed"
       \/ /\ WriteRaised(T_board_id_read)
          /\ resp_str' = resp_str
          /\ upc' = "io_failed"
    /\ UNCHANGED <<pc, serverOpen, serOpen>>
    /\ ConnFrame

\* the initial config of connect_device
ConfigLines == << T_cfg_freq, T_cfg_rate, T_cfg_gain >>

\* a connect_device that sets the gain before the sample rate
ConnConfigSwapped ==
    /\ upc = "config"
    /\ ser_tx' = ser_tx \o << T_cfg_freq, T_cfg_gain, T_cfg_rate >>
    /\ upc' = "bind"
    /\ UNCHANGED <<pc, serverOpen, serOpen, resp_str>>
    /\ ConnFrame

\* self.ser.write(b'set_freq 433920000\n'), b'set_sample_rate 250000\n',
\* b'set_gain 15\n'; reset_input_buffer; return True.  A write that raises
\* makes connect_device return False.
ConnConfig ==
    /\ upc = "config"
    /\ \/ /\ ser_tx' = ser_tx \o ConfigLines
          /\ upc' = "bind"
       \/ /\ \E n \in 0..3 : ser_tx' = ser_tx \o SubSeq(ConfigLines, 1, n)
          /\ upc' = "io_failed"
    /\ UNCHANGED <<pc, serverOpen, serOpen, resp_str>>
    /\ ConnFrame

\* a run() that goes on to accept() whatever start_server returned
start_server_unchecked ==
    /\ upc = "bind"
    /\ \/ serverOpen' = TRUE
       \/ serverOpen' = serverOpen
    /\ upc' = "accept"
    /\ pc' = "accept"
    /\ UNCHANGED <<serOpen, ser_tx, resp_str>>
    /\ ConnFrame

\* if not self.start_server(): return False; socket(), bind, listen(1), any
\* exception giving False.  Then the accept loop starts.
start_server ==
    /\ upc = "bind"
    /\ \/ /\ serverOpen' = TRUE
          /\ upc' = "accept"
          /\ pc' = "accept"
       \/ /\ serverOpen' = serverOpen
          /\ upc' = "bind_failed"
          /\ pc' = pc
    /\ UNCHANGED <<serOpen, ser_tx, resp_str>>
    /\ ConnFrame

\* what the steps of an EvilCrowSDR leave alone
SdrFrame == UNCHANGED <<bridgeVars, libVars, rtl_data, ser_rx, avail, chunk, sent>>

\* send_command(command): write, flush, read lines up to the timeout; the
\* reply is returned, or an exception of the port propagates
send_command(line, ok, failed) ==
    \/ /\ ser_tx' = Append(ser_tx, line)
       /\ \E r \in Replies : resp_str' = r
       /\ upc' = ok
    \/ /\ WriteRaised(line)
       /\ resp_str' = resp_str
       /\ upc' = failed

\* EvilCrowSDR.__init__ -> _connect: self.ser = serial.Serial(...); sleep;
\* reset_input_buffer; reset_output_buffer
SdrOpen ==
    /\ upc = "sdr_init"
    /\ \/ is_open' = TRUE /\ upc' = "sdr_enable"
       \/ is_open' = is_open /\ upc' = "sdr_raised"
    /\ UNCHANGED <<ser_tx, resp_str, streaming>>
    /\ SdrFrame

\* enable_resp = self.send_command('sdr_enable'); 'Trying board_id_read anyway'
SdrEnable ==
    /\ upc = "sdr_enable"
    /\ send_command(T_sdr_enable, "sdr_identify", "sdr_raised")
    /\ UNCHANGED <<is_open, streaming>>
    /\ SdrFrame

\* resp = self.send_command('board_id_read')
SdrIdentify ==
    /\ upc = "sdr_identify"
    /\ send_command(T_board_id_read, "sdr_checked", "sdr_raised")
    /\ UNCHANGED <<is_open, streaming>>
    /\ SdrFrame

\* if 'HACKRF' not in resp.upper(): raise ConnectionError(...)
SdrVerify ==
    /\ upc = "sdr_checked"
    /\ upc' = IF Contains(Upper(resp_str), T_HACKRF) THEN "sdr_ready" ELSE "sdr_refused"
    /\ UNCHANGED <<ser_tx, resp_str, is_open, streaming>>
    /\ SdrFrame

\* start_rx(): resp = self.send_command('rx_start'); if 'SUCCESS' in resp:
\* self._streaming = True and the reader thread starts
start_rx ==
    /\ upc = "sdr_ready"
    /\ \/ /\ ser_tx' = Append(ser_tx, T_rx_start)
          /\ \E r \in Replies :
                /\ resp_str' = r
                /\ streaming' = Contains(r, T_SUCCESS)
       \/ /\ WriteRaised(T_rx_start)
          /\ UNCHANGED <<resp_str, streaming>>
    /\ upc' = "sdr_used"
    /\ is_open' = is_open
    /\ SdrFrame

\* a close() that sends sdr_disable without looking at the port
close_unguarded ==
    /\ upc \in {"sdr_ready", "sdr_used", "closed"}
    /\ streaming' = FALSE
    /\ ser_tx' = ser_tx \o (IF streaming THEN << T_rx_stop >> ELSE << >>)
                       \o << T_sdr_disable >>
    /\ is_open' = FALSE
    /\ upc' = IF upc = "closed" THEN "closed_again" ELSE "closed"
    /\ resp_str' = resp_str
    /\ SdrFrame

\* close(): if self._streaming: self.stop_rx(), which clears the flag, joins
\* the reader and calls send_command('rx_stop') outside any try; then, if the
\* port is open: try send_command('sdr_disable') except pass; self.ser.close().
\* It may be called again on an object that was closed.
close ==
    /\ upc \in {"sdr_ready", "sdr_used", "closed"}
    /\ streaming' = FALSE
    /\ \/ /\ streaming /\ is_open      \* rx_stop raised: close() is left
          /\ WriteRaised(T_rx_stop)
          /\ is_open' = is_open
          /\ upc' = "close_raised"
       \/ /\ streaming /\ ~is_open     \* send_command: RuntimeError
          /\ UNCHANGED <<ser_tx, is_open>>
          /\ upc' = "close_raised"
       \/ /\ streaming => is_open
          /\ \E disabled \in (IF is_open THEN {<< >>, << T_sdr_disable >>}
                                          ELSE {<< >>}) :
                ser_tx' = ser_tx \o (IF streaming THEN << T_rx_stop >> ELSE << >>)
                                 \o disabled
          /\ is_open' = FALSE
          /\ upc' = IF upc = "closed" THEN "closed_again" ELSE "closed"
    /\ resp_str' = resp_str
    /\ SdrFrame

DeviceNext ==
    \/ ConnOpen \/ ConnEnable \/ ConnIdentify \/ ConnConfig \/ start_server
    \/ SdrOpen \/ SdrEnable \/ SdrIdentify \/ SdrVerify \/ start_rx \/ close

DeviceSpec == DeviceInit /\ [][DeviceNext]_vars

(* ================================= EvilCrowSDR: the drain worker and read_raw *)
\* An EvilCrowSDR after a successful connect: the caller's thread calls
\* start_rx, read_raw and stop_rx, the worker threads run _rx_worker statement
\* by statement.  queue.Queue(maxsize=50000) is a queue of MaxQueue chunks
\* here.  The device numbers the bytes it delivers 1, 2, 3, ...

\* 'HACKRF_SUCCESS' and 'HACKRF_ERROR'
R_SUCCESS == << 72, 65, 67, 75, 82, 70, 95, 83, 85, 67, 67, 69, 83, 83 >>
R_ERROR == << 72, 65, 67, 75, 82, 70, 95, 69, 82, 82, 79, 82 >>

\* the worker thread w was started and has not ended
Alive(w) == wpc[w] \in {"test", "poll", "read", "put", "evict", "reput"}

\* the caller's thread is between two calls on the object
CallerIdle == upc \in {"sdr_ready", "sdr_used", "rr_done", "stopped", "stop_raised"}

\* what the steps of the worker and of read_raw leave alone
RxFrame ==
    UNCHANGED <<bridgeVars, cfgVars, rpos, outVars, fnVars, rtl_data, avail, chunk,
                sent>>

\* the CC1101 delivers the next byte into the serial input buffer
RxByte ==
    /\ is_open
    /\ nbytes < MaxBytes
    /\ nbytes' = nbytes + 1
    /\ ser_rx' = Append(ser_rx, nbytes + 1)
    /\ UNCHANGED <<upc, ser_tx, resp_str, is_open, streaming, rx_queue, wpc, wavail,
                   wdata, stream_thread, count, result, ret>>
    /\ RxFrame

\* what a worker step leaves alone besides the queue, the input buffer and
\* its own locals
WorkerFrame ==
    /\ UNCHANGED <<upc, ser_tx, resp_str, is_open, streaming, stream_thread, count,
                   result, ret, nbytes>>
    /\ RxFrame

\* while self._streaming and self.ser and self.ser.is_open:
WorkerTest(w) ==
    /\ wpc[w] = "test"
    /\ wpc' = [wpc EXCEPT ![w] = IF streaming /\ is_open THEN "poll" ELSE "ended"]
    /\ UNCHANGED <<ser_rx, rx_queue, wavail, wdata>>
    /\ WorkerFrame

\* avail = self.ser.in_waiting; if avail > 0: ... else: time.sleep(0.005);
\* except Exception: break
WorkerPoll(w) ==
    /\ wpc[w] = "poll"
    /\ \/ /\ wavail' = [wavail EXCEPT ![w] = Len(ser_rx)]
          /\ wpc' = [wpc EXCEPT ![w] = IF Len(ser_rx) > 0 THEN "read" ELSE "test"]
       \/ /\ wavail' = wavail
          /\ wpc' = [wpc EXCEPT ![w] = "broke_serial"]
    /\ UNCHANGED <<ser_rx, rx_queue, wdata>>
    /\ WorkerFrame

\* data = self.ser.read(min(avail, 256)); if data: ...  (what another reader
\* took in between is missing: the read returns less after its timeout)
WorkerRead(w) ==
    /\ wpc[w] = "read"
    /\ \/ /\ wdata' = [wdata EXCEPT ![w] = Take(ser_rx, Min(wavail[w], WorkerChunkMax))]
          /\ ser_rx' = SubSeq(ser_rx, Len(wdata'[w]) + 1, Len(ser_rx))
          /\ wpc' = [wpc EXCEPT ![w] = IF wdata'[w] # << >> THEN "put" ELSE "test"]
       \/ /\ UNCHANGED <<wdata, ser_rx>>
          /\ wpc' = [wpc EXCEPT ![w] = "broke_serial"]
    /\ UNCHANGED <<rx_queue, wavail>>
    /\ WorkerFrame

\* try: self._rx_queue.put_nowait(data) except queue.Full: ...
WorkerPut(w) ==
    /\ wpc[w] = "put"
    /\ IF Len(rx_queue) < MaxQueue
         THEN /\ rx_queue' = Append(rx_queue, wdata[w])
              /\ wpc' = [wpc EXCEPT ![w] = "test"]
         ELSE /\ rx_queue' = rx_queue
              /\ wpc' = [wpc EXCEPT ![w] = "evict"]
    /\ UNCHANGED <<ser_rx, wavail, wdata>>
    /\ WorkerFrame

\* an overflow handler that discards the newest queued chunk
WorkerEvictNewest(w) ==
    /\ wpc[w] = "evict"
    /\ rx_queue' = IF rx_queue = << >> THEN << >> ELSE Front(rx_queue)
    /\ wpc' = [wpc EXCEPT ![w] = "reput"]
    /\ UNCHANGED <<ser_rx, wavail, wdata>>
    /\ WorkerFrame

\* try: self._rx_queue.get_nowait() except queue.Empty: pass
WorkerEvict(w) ==
    /\ wpc[w] = "evict"
    /\ rx_queue' = IF rx_queue = << >> THEN << >> ELSE Tail(rx_queue)
    /\ wpc' = [wpc EXCEPT ![w] = "reput"]
    /\ UNCHANGED <<ser_rx, wavail, wdata>>
    /\ WorkerFrame

\* self._rx_queue.put_nowait(data) in the handler of queue.Full: a second
\* queue.Full reaches `except Exception: break`
WorkerReput(w) ==
    /\ wpc[w] = "reput"
    /\ IF Len(rx_queue) < MaxQueue
         THEN /\ rx_queue' = Append(rx_queue, wdata[w])
              /\ wpc' = [wpc EXCEPT ![w] = "test"]
         ELSE /\ rx_queue' = rx_queue
              /\ wpc' = [wpc EXCEPT ![w] = "broke_full"]
    /\ UNCHANGED <<ser_rx, wavail, wdata>>
    /\ WorkerFrame

Worker(w) ==
    \/ WorkerTest(w) \/ WorkerPoll(w) \/ WorkerRead(w)
    \/ WorkerPut(w) \/ WorkerEvict(w) \/ WorkerReput(w)

\* what a step of read_raw leaves alone besides the queue and its locals
ReadRawFrame ==
    /\ UNCHANGED <<ser_tx, ser_rx, resp_str, is_open, streaming, wpc, wavail, wdata,
                   stream_thread, nbytes>>
    /\ RxFrame

\* read_raw(count, timeout): result = bytearray(); deadline = ...
ReadRawCall(c) ==
    /\ CallerIdle
    /\ count' = c
    /\ result' = << >>
    /\ ret' = << >>
    /\ upc' = "rr_test"
    /\ rx_queue' = rx_queue
    /\ ReadRawFrame

\* while len(result) < count and time.time() < deadline:
ReadRawTest ==
    /\ upc = "rr_test"
    /\ \/ Len(result) < count /\ upc' = "rr_get"
       \/ upc' = "rr_return"          \* enough bytes, or the deadline passed
    /\ UNCHANGED <<count, result, ret, rx_queue>>
    /\ ReadRawFrame

\* chunk = self._rx_queue.get(timeout=0.1); result.extend(chunk);
\* except queue.Empty: continue
ReadRawGet ==
    /\ upc = "rr_get"
    /\ IF rx_queue # << >>
         THEN /\ result' = result \o Head(rx_queue)
              /\ rx_queue' = Tail(rx_queue)
         ELSE UNCHANGED <<result, rx_queue>>
    /\ upc' = "rr_test"
    /\ UNCHANGED <<count, ret>>
    /\ ReadRawFrame

\* return bytes(result[:count])
ReadRawReturn ==
    /\ upc = "rr_return"
    /\ ret' = Take(result, count)
    /\ upc' = "rr_done"
    /\ UNCHANGED <<count, result, rx_queue>>
    /\ ReadRawFrame

read_raw ==
    \/ \E c \in 1..MaxCount : ReadRawCall(c)
    \/ ReadRawTest \/ ReadRawGet \/ ReadRawReturn

\* what a step of start_rx or stop_rx leaves alone besides the port, the
\* flag and the threads
StartStopFrame ==
    /\ UNCHANGED <<is_open, rx_queue, wavail, wdata, count, result, ret, nbytes>>
    /\ RxFrame

\* start_rx(): resp = self.send_command('rx_start'), which takes the input
\* that is waiting as the reply; if 'SUCCESS' in resp: self._streaming = True;
\* self._stream_thread = Thread(target=self._rx_worker); start()
SdrStartRx ==
    /\ CallerIdle
    /\ Len(ser_tx) < MaxTx
    /\ \E w \in Workers :
          /\ wpc[w] = "none"
          /\ \A v \in Workers : v < w => wpc[v] # "none"
          /\ \/ /\ ser_tx' = Append(ser_tx, T_rx_start)
                /\ resp_str' = R_SUCCESS
                /\ streaming' = TRUE
                /\ stream_thread' = w
                /\ wpc' = [wpc EXCEPT ![w] = "test"]
             \/ /\ ser_tx' = Append(ser_tx, T_rx_start)
                /\ resp_str' = R_ERROR
                /\ UNCHANGED <<streaming, stream_thread, wpc>>
             \/ /\ WriteRaised(T_rx_start)
                /\ UNCHANGED <<resp_str, streaming, stream_thread, wpc>>
    /\ \E n \in 0..Len(ser_rx) : ser_rx' = SubSeq(ser_rx, n + 1, Len(ser_rx))
    /\ upc' = "sdr_used"
    /\ StartStopFrame

\* stop_rx(): self._streaming = False; if self._stream_thread: ...
StopRxClear ==
    /\ CallerIdle
    /\ Len(ser_tx) < MaxTx
    /\ streaming' = FALSE
    /\ upc' = IF stream_thread # None THEN "stop_join" ELSE "stop_send"
    /\ UNCHANGED <<ser_tx, ser_rx, resp_str, stream_thread, wpc>>
    /\ StartStopFrame

\* self._stream_thread.join(timeout=2.0); self._stream_thread = None
\* No step of the worker takes 2 s (its read has the port's own timeout of
\* 2 s and started earlier): the join returns when the joined thread ended.
StopRxJoin ==
    /\ upc = "stop_join"
    /\ ~Alive(stream_thread)
    /\ stream_thread' = None
    /\ upc' = "stop_send"
    /\ UNCHANGED <<ser_tx, ser_rx, resp_str, streaming, wpc>>
    /\ StartStopFrame

\* resp = self.send_command('rx_stop'), outside any try; the reply loop
\* reads what is waiting in the input buffer
StopRxSend ==
    /\ upc = "stop_send"
    /\ \/ /\ ser_tx' = Append(ser_tx, T_rx_stop)
          /\ \E r \in {R_SUCCESS, R_ERROR} : resp_str' = r
          /\ \E n \in 0..Len(ser_rx) : ser_rx' = SubSeq(ser_rx, n + 1, Len(ser_rx))
          /\ upc' = "stopped"
       \/ /\ WriteRaised(T_rx_stop)
          /\ UNCHANGED <<resp_str, ser_rx>>
          /\ upc' = "stop_raised"
    /\ UNCHANGED <<streaming, stream_thread, wpc>>
    /\ StartStopFrame

stop_rx == StopRxClear \/ StopRxJoin \/ StopRxSend

\* a connected EvilCrowSDR: the port open, nothing started
SdrReady ==
    /\ upc = "sdr_ready"
    /\ rtl_data = << >>
    /\ ser_tx = << >>
    /\ ser_rx = << >>
    /\ avail = 0
    /\ chunk = << >>
    /\ sent = << >>
    /\ resp_str = << >>
    /\ is_open = TRUE
    /\ streaming = FALSE
    /\ LibOff

\* the same after one start_rx() that the device answered with SUCCESS
QueueInit ==
    /\ NoBridge
    /\ upc = "sdr_used"
    /\ rtl_data = << >>
    /\ ser_tx = << T_rx_start >>
    /\ ser_rx = << >>
    /\ avail = 0
    /\ chunk = << >>
    /\ sent = << >>
    /\ resp_str = R_SUCCESS
    /\ is_open = TRUE
    /\ streaming = TRUE
    /\ cfg_call = << >>
    /\ frequency_hz = 433920000
    /\ modulation = 2
    /\ bandwidth_khz = 6500
    /\ data_rate_baud = 379372
    /\ rx_queue = << >>
    /\ wpc = [w \in Workers |-> IF w = 1 THEN "test" ELSE "none"]
    /\ wavail = [w \in Workers |-> 0]
    /\ wdata = [w \in Workers |-> << >>]
    /\ stream_thread = 1
    /\ count = 0
    /\ result = << >>
    /\ ret = << >>
    /\ nbytes = 0
    /\ rpos = 0
    /\ sys_stdout = "console"
    /\ tool_pc = [t \in Tools |-> "idle"]
    /\ old_stdout = [t \in Tools |-> "unset"]
    /\ FnOff

\* one worker, one consumer: start_rx was called once
QueueNext == (\E w \in Workers : Worker(w)) \/ read_raw \/ stop_rx \/ RxByte

QueueSpec == QueueInit /\ [][QueueNext]_vars

\* any sequence of start_rx and stop_rx calls, the queue left to fill
RxInit == NoBridge /\ SdrReady

RxNext == SdrStartRx \/ stop_rx \/ (\E w \in Workers : Worker(w)) \/ RxByte

RxSpec == RxInit /\ [][RxNext]_vars

(* ============================================ EvilCrowSDR: the setters *)
\* One call of set_frequency, set_modulation, set_bandwidth or set_data_rate
\* on a connected EvilCrowSDR (or on one whose port was closed).  Frequencies
\* are in Hz, bandwidths in tenths of a kHz (650.0 is 6500), data rates in
\* hundredths of a baud (3793.72 is 379372).

\* CC1101_BANDS, in Hz
CC1101_BANDS ==
    { << 300000000, 348000000 >>, << 387000000, 464000000 >>,
      << 779000000, 928000000 >> }

\* any(lo <= freq_mhz <= hi for lo, hi in CC1101_BANDS)
is_valid_frequency(f) == \E b \in CC1101_BANDS : b[1] <= f /\ f <= b[2]

\* the names set_modulation is tried with: '2FSK', 'gfsk', 'ook', 'ASK/OOK',
\* '4FSK', 'MSK' and the unknown 'FM'
M_2FSK == << 50, 70, 83, 75 >>
M_GFSK == << 71, 70, 83, 75 >>
M_ASK == << 65, 83, 75 >>
M_OOK == << 79, 79, 75 >>
M_ASK_OOK == << 65, 83, 75, 47, 79, 79, 75 >>
M_4FSK == << 52, 70, 83, 75 >>
M_MSK == << 77, 83, 75 >>
M_gfsk == << 103, 102, 115, 107 >>
M_ook == << 111, 111, 107 >>
M_FM == << 70, 77 >>

\* MODULATIONS = {'2FSK': 0, 'GFSK': 1, 'ASK': 2, 'OOK': 2, 'ASK/OOK': 2,
\*                '4FSK': 3, 'MSK': 4}: its keys, and its value for a key
ModulationNames == {M_2FSK, M_GFSK, M_ASK, M_OOK, M_ASK_OOK, M_4FSK, M_MSK}
MODULATIONS(name) ==
    CASE name = M_2FSK -> 0
      [] name = M_GFSK -> 1
      [] name \in {M_ASK, M_OOK, M_ASK_OOK} -> 2
      [] name = M_4FSK -> 3
      [] name = M_MSK -> 4

\* 'set_modulation ', 'set_bandwidth ' and '.'
T_set_modulation == << 115, 101, 116, 95, 109, 111, 100, 117, 108, 97, 116, 105, 111, 110, 32 >>
T_set_bandwidth == << 115, 101, 116, 95, 98, 97, 110, 100, 119, 105, 100, 116, 104, 32 >>
Dot == << 46 >>

\* f'{bw_khz}' for a float with one decimal, given in tenths
StrTenths(t) == Str(Digits(t \div 10)) \o Dot \o Str(Digits(t % 10))

\* the calls tried
Calls ==
    { << "set_frequency", f >> :
         f \in {0, 299999999, 300000000, 315000000, 348000000, 348000001,
                386999999, 433920000, 464000000, 500000000, 779000000,
                868350000, 928000000, 928000001} }
      \cup { << "set_modulation", m >> :
                m \in {M_2FSK, M_gfsk, M_ook, M_ASK_OOK, M_4FSK, M_MSK, M_FM} }
      \cup { << "set_bandwidth", b >> : b \in {580, 6500, 8120, 12345} }
      \cup { << "set_data_rate", r >> : r \in {99, 60000, 379372, 50000000} }

\* a caller about to make one of these calls
ConfigInit ==
    /\ NoBridge
    /\ upc = "cfg_call"
    /\ rtl_data = << >>
    /\ ser_tx = << >>
    /\ ser_rx = << >>
    /\ avail = 0
    /\ chunk = << >>
    /\ sent = << >>
    /\ resp_str = << >>
    /\ is_open \in BOOLEAN
    /\ streaming = FALSE
    /\ SdrDefaults
    /\ cfg_call \in Calls
    /\ NoRead
    /\ rpos = 0
    /\ NoTools
    /\ FnOff

\* what a setter leaves alone besides the port's output, the reply and the
\* recorded configuration
ConfigFrame ==
    UNCHANGED <<bridgeVars, rxVars, rpos, outVars, fnVars, cfg_call, rtl_data, ser_rx,
                avail, chunk, sent, is_open, streaming>>

\* resp = self.send_command(line); if 'SUCCESS' in resp: ...; return True;
\* otherwise return False.  send_command raises RuntimeError on a closed
\* port, and an exception of the write propagates.
SendConfig(line) ==
    \/ /\ ~is_open
       /\ UNCHANGED <<ser_tx, resp_str>>
       /\ upc' = "cfg_raised"
    \/ /\ is_open
       /\ ser_tx' = Append(ser_tx, line)
       /\ \E r \in Replies :
             /\ resp_str' = r
             /\ upc' = IF Contains(r, T_SUCCESS) THEN "cfg_true" ELSE "cfg_false"
    \/ /\ is_open
       /\ WriteRaised(line)
       /\ resp_str' = resp_str
       /\ upc' = "cfg_raised"

\* return False before anything is sent
Rejected ==
    /\ upc' = "cfg_false"
    /\ UNCHANGED <<ser_tx, resp_str>>

\* a set_frequency that records the frequency before the device answered
set_frequency_eager ==
    /\ upc = "cfg_call" /\ cfg_call[1] = "set_frequency"
    /\ IF is_valid_frequency(cfg_call[2])
         THEN /\ SendConfig(T_set_freq \o Str(Digits(cfg_call[2])) \o NL)
              /\ frequency_hz' = cfg_call[2]
         ELSE /\ Rejected
              /\ frequency_hz' = frequency_hz
    /\ UNCHANGED <<modulation, bandwidth_khz, data_rate_baud>>
    /\ ConfigFrame

\* set_frequency(freq_hz): if not is_valid_frequency(freq_hz): return False;
\* resp = self.send_command(f'set_freq {int(freq_hz)}');
\* if 'SUCCESS' in resp: self.frequency_hz = freq_hz
set_frequency ==
    /\ upc = "cfg_call" /\ cfg_call[1] = "set_frequency"
    /\ IF is_valid_frequency(cfg_call[2])
         THEN /\ SendConfig(T_set_freq \o Str(Digits(cfg_call[2])) \o NL)
              /\ frequency_hz' = IF upc' = "cfg_true" THEN cfg_call[2] ELSE frequency_hz
         ELSE /\ Rejected
              /\ frequency_hz' = frequency_hz
    /\ UNCHANGED <<modulation, bandwidth_khz, data_rate_baud>>
    /\ ConfigFrame

\* set_modulation(mod): mod_upper = mod.upper(); an unknown name returns
\* False; mod_id = self.MODULATIONS[mod_upper];
\* resp = self.send_command(f'set_modulation {mod_id}');
\* if 'SUCCESS' in resp: self.modulation = mod_id
set_modulation ==
    /\ upc = "cfg_call" /\ cfg_call[1] = "set_modulation"
    /\ LET mod_upper == Upper(cfg_call[2])
       IN  IF mod_upper \in ModulationNames
             THEN /\ SendConfig(T_set_modulation \o Str(Digits(MODULATIONS(mod_upper))) \o NL)
                  /\ modulation' = IF upc' = "cfg_true" THEN MODULATIONS(mod_upper)
                                                         ELSE modulation
             ELSE /\ Rejected
                  /\ modulation' = modulation
    /\ UNCHANGED <<frequency_hz, bandwidth_khz, data_rate_baud>>
    /\ ConfigFrame

\* set_bandwidth(bw_khz): resp = self.send_command(f'set_bandwidth {bw_khz}');
\* if 'SUCCESS' in resp: self.bandwidth_khz = bw_khz
set_bandwidth ==
    /\ upc = "cfg_call" /\ cfg_call[1] = "set_bandwidth"
    /\ SendConfig(T_set_bandwidth \o StrTenths(cfg_call[2]) \o NL)
    /\ bandwidth_khz' = IF upc' = "cfg_true" THEN cfg_call[2] ELSE bandwidth_khz
    /\ UNCHANGED <<frequency_hz, modulation, data_rate_baud>>
    /\ ConfigFrame

\* set_data_rate(rate_hz):
\* resp = self.send_command(f'set_sample_rate {int(rate_hz)}');
\* if 'SUCCESS' in resp: self.data_rate_baud = rate_hz
set_data_rate ==
    /\ upc = "cfg_call" /\ cfg_call[1] = "set_data_rate"
    /\ SendConfig(T_set_sample_rate \o Str(Digits(cfg_call[2] \div 100)) \o NL)
    /\ data_rate_baud' = IF upc' = "cfg_true" THEN cfg_call[2] ELSE data_rate_baud
    /\ UNCHANGED <<frequency_hz, modulation, bandwidth_khz>>
    /\ ConfigFrame

ConfigNext == set_frequency \/ set_modulation \/ set_bandwidth \/ set_data_rate

ConfigSpec == ConfigInit /\ [][ConfigNext]_vars

(* ================================== the command loop on a client's stream *)
\* The command loop of an active session reading the byte stream CmdStream,
\* which TCP hands over in pieces of any size: rpos bytes have been returned
\* by recv() so far.

\* session 1 is active and its client has sent CmdStream
StreamInit == InSession /\ UnitOff("off")

\* data = client.recv(1024): the next n bytes of the stream;
\* for i in range(0, len(data) - 4, 5): self.handle_rtl_command(data[i:i + 5])
\* Each frame with opcode 0x01, 0x02 or 0x04 writes its line; a write that
\* raises ends the loop (except (ConnectionResetError, OSError): break).
RecvPiece(n) ==
    /\ pc = "select"
    /\ running
    /\ rpos + n <= Len(CmdStream)
    /\ rpos' = rpos + n
    /\ data' = SubSeq(CmdStream, rpos + 1, rpos + n)
    /\ LET frames == FramesOf(data')
           lines == [k \in 1..Len(frames) |-> LineOf(frames[k])]
           written(m) == SelectSeq(SubSeq(lines, 1, m), LAMBDA l : l # << >>)
       IN  \/ /\ handed' = frames
              /\ ser_tx' = ser_tx \o written(Len(frames))
              /\ pc' = "alive"
              /\ endCause' = endCause
           \/ \E m \in 1..Len(frames) :
                 /\ WritesSerial(frames[m])
                 /\ handed' = SubSeq(frames, 1, m)
                 /\ ser_tx' \in {ser_tx \o written(m - 1), ser_tx \o written(m)}
                 /\ LeaveLoop("serial")
    /\ UNCHANGED <<mode, running, client, nsess, sockOpen, serverOpen, serOpen, cst,
                   wire, strVars, stopFlag, intr, escaped, libVarsButRpos, upc,
                   rtl_data, ser_rx, avail, chunk, sent, resp_str, is_open, streaming>>

StreamNext == (\E n \in 1..Len(CmdStream) : RecvPiece(n)) \/ CheckAlive

StreamSpec == StreamInit /\ [][StreamNext]_vars

(* ============================== a streamer and the commands of its session *)
\* The streamer of an active session, statement by statement, while the
\* command loop of the same session forwards a configuration frame.  The
\* firmware answers every text command with a line, 'HACKRF_SUCCESS' or
\* 'HACKRF_ERROR', on the same serial port.

\* the configuration frames tried: set_freq 435280, set_sample_rate 250000,
\* set_gain 15
ConfigFrames ==
    { << 1, 0, 6, 164, 80 >>, << 2, 0, 3, 208, 144 >>, << 4, 0, 0, 0, 150 >> }

\* the streamer is at the top of its loop, the device has sent nothing yet
SessionInit == IterInit /\ ser_rx = << >>

\* handle_rtl_command(frame) in the command loop: self.ser.write(line); the
\* reply is not read there.  The firmware's answer arrives in the input
\* buffer behind what is waiting.  One command per session is followed.
CommandAnswered ==
    /\ pc = "select"
    /\ upc \in {"loop", "poll", "read", "send", "sent"}
    /\ ser_tx = << >>
    /\ \E f \in ConfigFrames : ser_tx' = Append(ser_tx, LineOf(f))
    /\ \E r \in {R_SUCCESS, R_ERROR} : ser_rx' = ser_rx \o r \o NL
    /\ UNCHANGED <<bridgeVars, libVars, upc, rtl_data, avail, chunk, sent, resp_str,
                   is_open, streaming>>

SessionNext == IterStep \/ CommandAnswered

SessionSpec == SessionInit /\ [][SessionNext]_vars

(* ================================================= the GNU Radio block *)
\* EvilCrowGRSource.work fills the scheduler's output buffer from
\* EvilCrowSource.read_samples, which takes samples from the queue that
\* _read_worker feeds.  A sample complex((b - 128) / 128.0, 0.0) is written as
\* its numerator b - 128; complex64 holds every k/128 exactly.

GrBytes == {128, 255}
Sample(b) == b - 128
SampleValues == {Sample(b) : b \in GrBytes}

\* np.zeros(k)
Zeros(k) == [i \in 1..k |-> 0]

\* the block is started and streaming, no work() call yet
WorkInit == NoBridge /\ UnitOff("gr")

\* what the block's steps leave alone
WorkFrame ==
    UNCHANGED <<bridgeVars, cfgVars, rxVars, outVars, kiaVars, bumpVars, rpos, upc,
                rtl_data,
                ser_tx, ser_rx, avail, chunk, sent, resp_str, is_open, streaming>>

\* _read_worker, for one byte b of data: put_nowait(sample); on queue.Full
\* get_nowait() and put_nowait(sample) again.  The queue holds MaxQueue
\* samples here (maxsize=20000 in the source).
ReadWorkerPut(b) ==
    /\ sample_queue' = (IF Len(sample_queue) < MaxQueue
                            THEN sample_queue
                            ELSE Tail(sample_queue)) \o << Sample(b) >>
    /\ UNCHANGED <<gr_pc, work_n, samples, arr, out, work_ret>>
    /\ WorkFrame

\* the scheduler calls work() with a buffer of k items holding whatever the
\* last use left there: out = output_items[0]; n = len(out);
\* read_samples(n): samples = []
WorkCall(k) ==
    /\ gr_pc \in {"idle", "returned"}
    /\ \E buf \in [1..k -> SampleValues] : out' = buf
    /\ work_n' = k
    /\ samples' = << >>
    /\ arr' = << >>
    /\ gr_pc' = "rs_test"
    /\ UNCHANGED <<sample_queue, work_ret>>
    /\ WorkFrame

\* more == TRUE: while <more> and time.time() < deadline; the clock is not
\* modelled, either answer of the second test is possible
ReadSamplesLoop(more) ==
    /\ gr_pc = "rs_test"
    /\ \/ more /\ gr_pc' = "rs_get"          \* and the deadline lies ahead
       \/ gr_pc' = "rs_return"               \* enough samples, or too late
    /\ UNCHANGED <<sample_queue, work_n, samples, arr, out, work_ret>>
    /\ WorkFrame

\* too many: the loop runs while len(samples) <= count
ReadSamplesTestOver == ReadSamplesLoop(Len(samples) <= work_n)

\* while len(samples) < count and time.time() < deadline:
ReadSamplesTest == ReadSamplesLoop(Len(samples) < work_n)

\* s = self.sample_queue.get(timeout=0.05); samples.append(s);
\* except queue.Empty: continue
ReadSamplesGet ==
    /\ gr_pc = "rs_get"
    /\ IF sample_queue # << >>
         THEN /\ samples' = Append(samples, Head(sample_queue))
              /\ sample_queue' = Tail(sample_queue)
         ELSE UNCHANGED <<samples, sample_queue>>
    /\ gr_pc' = "rs_test"
    /\ UNCHANGED <<work_n, arr, out, work_ret>>
    /\ WorkFrame

\* if not samples: return np.zeros(count); return np.array(samples[:count])
ReadSamplesReturn ==
    /\ gr_pc = "rs_return"
    /\ arr' = IF samples = << >> THEN Zeros(work_n) ELSE Take(samples, work_n)
    /\ gr_pc' = "copy"
    /\ UNCHANGED <<sample_queue, work_n, samples, out, work_ret>>
    /\ WorkFrame

read_samples == ReadSamplesTest \/ ReadSamplesGet \/ ReadSamplesReturn

\* out[:len(samples)] = samples; if len(samples) < n: out[len(samples):] = 0;
\* return n.  An array longer than out cannot be assigned (ValueError).
WorkCopy ==
    /\ gr_pc = "copy"
    /\ IF Len(arr) <= Len(out)
         THEN /\ out' = [i \in 1..Len(out) |->
                            IF i <= Len(arr) THEN arr[i]
                            ELSE IF Len(arr) < work_n THEN 0 ELSE out[i]]
              /\ work_ret' = work_n
              /\ gr_pc' = "returned"
         ELSE /\ gr_pc' = "work_raised"
              /\ UNCHANGED <<out, work_ret>>
    /\ UNCHANGED <<sample_queue, work_n, samples, arr>>
    /\ WorkFrame

work == (\E k \in 0..MaxOut : WorkCall(k)) \/ read_samples \/ WorkCopy

WorkNext == work \/ \E b \in GrBytes : ReadWorkerPut(b)

WorkSpec == WorkInit /\ [][WorkNext]_vars

(* ============================================== the KiaV0 test signal *)
\* generate_test_sub.py builds the KiaV0 data word and its pulse list.  The
\* word is wider than 32 bits: it is held as its bits, a function from bit
\* position to 0 or 1.

WordBits == 0..63

\* (x >> i) & 1 for 0 <= x < 2^31
Bit(x, i) == IF i > 30 THEN 0 ELSE (x \div (2 ^ i)) % 2

\* x << k, as bits
ShiftLeft(x, k) == [i \in WordBits |-> IF i >= k THEN Bit(x, i - k) ELSE 0]

\* a | b | c on bits
Or3(a, b, c) == [i \in WordBits |-> IF a[i] + b[i] + c[i] > 0 THEN 1 ELSE 0]

\* (d >> lo) & (2^w - 1), for w <= 30
RECURSIVE Field(_, _, _)
Field(d, lo, w) == IF w = 0 THEN 0 ELSE d[lo] + 2 * Field(d, lo + 1, w - 1)

\* a ^ b for 0 <= a, b < 2^9
Xor(a, b) == Field([i \in WordBits |-> (Bit(a, i) + Bit(b, i)) % 2], 0, 9)

\* the body of the loop of kia_v0_crc8, for one bit
CrcStep(c, bit) ==
    IF (Bit(c, 7) + bit) % 2 = 1
      THEN Xor(c * 2, 127) % 256
      ELSE (c * 2) % 256

\* crc = 0; for i in range(start_bit, end_bit - 1, -1): ...; return crc
RECURSIVE CrcFrom(_, _, _, _)
CrcFrom(c, d, i, end_bit) ==
    \* (the test of c has TLC evaluate it before the next round)
    IF i < end_bit \/ c < 0 THEN c ELSE CrcFrom(CrcStep(c, d[i]), d, i - 1, end_bit)

kia_v0_crc8(d, start_bit, end_bit) == CrcFrom(0, d, start_bit, end_bit)

\* the button field four bits lower, on top of the CRC
DataWordLow(c, s, b) ==
    Or3(ShiftLeft(c % 65536, 40), ShiftLeft(s % (2 ^ 28), 12), ShiftLeft(b % 16, 4))

\* ((counter & 0xFFFF) << 40) | ((serial & 0x0FFFFFFF) << 12) |
\* ((button & 0x0F) << 8)
DataWord(c, s, b) ==
    Or3(ShiftLeft(c % 65536, 40), ShiftLeft(s % (2 ^ 28), 12), ShiftLeft(b % 16, 8))

\* the arguments followed: the ends of each field's range, values between,
\* and one value past the range of counter and serial
KiaCounters == {0, 1, 4660, 32768, 65535, 65536}
KiaSerials == {0, 1, 11259375, 134217728, 268435455, 268435456}
KiaButtons == 0..16

\* the script before the call
KiaInit == NoBridge /\ UnitOff("off")

\* what the generator's steps leave alone
KiaFrame ==
    UNCHANGED <<bridgeVars, cfgVars, rxVars, outVars, grVars, bumpVars, rpos, upc,
                rtl_data, ser_tx, ser_rx, avail, chunk, sent, resp_str, is_open,
                streaming>>

\* generate_kia_v0_pulses(c, s, b) is called
KiaCall(c, s, b) ==
    /\ kia_pc = "off"
    /\ counter' = c
    /\ serial' = s
    /\ button' = b
    /\ kia_pc' = "call"
    /\ UNCHANGED <<kia_data, crc, pulses>>
    /\ KiaFrame

\* data = ...; crc = kia_v0_crc8(data, 55, 8); data |= crc
KiaWord ==
    /\ kia_pc = "call"
    /\ LET d == DataWord(counter, serial, button)
           k == kia_v0_crc8(d, 55, 8)
       IN /\ crc' = k
          /\ kia_data' = Or3(d, ShiftLeft(k, 0), ShiftLeft(0, 0))
    /\ kia_pc' = "assert"
    /\ UNCHANGED <<counter, serial, button, pulses>>
    /\ KiaFrame

\* the four assert statements
KiaAssert ==
    /\ kia_pc = "assert"
    /\ kia_pc' = IF /\ Field(kia_data, 40, 16) = counter
                    /\ Field(kia_data, 12, 28) = serial
                    /\ Field(kia_data, 8, 4) = button
                    /\ Field(kia_data, 0, 8) = crc
                   THEN "pulses"
                   ELSE "assert_failed"
    /\ UNCHANGED <<counter, serial, button, kia_data, crc, pulses>>
    /\ KiaFrame

\* for _ in range(32): pulses.append(TE_SHORT); pulses.append(-TE_SHORT)
Preamble == [i \in 1..(2 * PreamblePairs) |-> IF i % 2 = 1 THEN TE_SHORT ELSE -TE_SHORT]

\* pulses.append(TE_LONG); pulses.append(-TE_LONG)
Sync == << TE_LONG, -TE_LONG >>

\* for bit_pos in range(60, -1, -1): long HIGH for 1, short HIGH for 0, then
\* the separator LOW
DataPulses(d) ==
    [i \in 1..(2 * DataBits) |->
        IF i % 2 = 0 THEN -TE_SHORT
        ELSE IF d[DataBits - ((i + 1) \div 2)] = 1 THEN TE_LONG ELSE TE_SHORT]

\* the pulse list built and returned
KiaPulses ==
    /\ kia_pc = "pulses"
    /\ pulses' = Preamble \o Sync \o DataPulses(kia_data) \o << -EndGap >>
    /\ kia_pc' = "returned"
    /\ UNCHANGED <<counter, serial, button, kia_data, crc>>
    /\ KiaFrame

generate_kia_v0_pulses == KiaWord \/ KiaAssert \/ KiaPulses

KiaNext ==
    \/ \E c \in KiaCounters, s \in KiaSerials, b \in KiaButtons : KiaCall(c, s, b)
    \/ generate_kia_v0_pulses

KiaSpec == KiaInit /\ [][KiaNext]_vars

(* ==================================================== bump_version *)
\* release_builder.bump_version on a version text: split at the dots, int()
\* of every component, padding to three, the bump, and the formatted result.

\* version.split("."): the texts between the dots, at least one
RECURSIVE Split(_)
Split(txt) ==
    IF \E i \in 1..Len(txt) : txt[i] = Dot[1]
      THEN LET i == CHOOSE j \in 1..Len(txt) :
                        txt[j] = Dot[1] /\ \A k \in 1..(j - 1) : txt[k] # Dot[1]
           IN << SubSeq(txt, 1, i - 1) >> \o Split(SubSeq(txt, i + 1, Len(txt)))
      ELSE << txt >>

\* int(x) accepts x: decimal digits, at least one (signs and blanks are not
\* among the texts followed)
IsDigits(x) == x # << >> /\ \A i \in 1..Len(x) : x[i] \in 48..57

\* int(x) for such a text
RECURSIVE IntOf(_)
IntOf(x) == IF x = << >> THEN 0 ELSE IntOf(Front(x)) * 10 + (x[Len(x)] - 48)

\* f"{parts[0]}.{parts[1]}.{parts[2]}"
Format(p) == Str(Digits(p[1])) \o Dot \o Str(Digits(p[2])) \o Dot \o Str(Digits(p[3]))

\* the minor bump that leaves parts[2] alone
BumpedKeep(p, t) ==
    IF t = "major" THEN [p EXCEPT ![1] = p[1] + 1, ![2] = 0, ![3] = 0]
    ELSE IF t = "minor" THEN [p EXCEPT ![2] = p[2] + 1]
    ELSE IF t = "patch" THEN [p EXCEPT ![3] = p[3] + 1]
    ELSE p

\* the if / elif chain on bump_type, on parts of length three or more
Bumped(p, t) ==
    IF t = "major" THEN [p EXCEPT ![1] = p[1] + 1, ![2] = 0, ![3] = 0]
    ELSE IF t = "minor" THEN [p EXCEPT ![2] = p[2] + 1, ![3] = 0]
    ELSE IF t = "patch" THEN [p EXCEPT ![3] = p[3] + 1]
    ELSE p

\* the version texts followed: '0.0.0', '1.2.3', '0.9.9', '9.9.9', '10.0.19',
\* '1.2', '7', '01.02.03', '1.2.3.4', '' and '1.x.3'
Versions ==
    { << 48, 46, 48, 46, 48 >>, << 49, 46, 50, 46, 51 >>, << 48, 46, 57, 46, 57 >>,
      << 57, 46, 57, 46, 57 >>, << 49, 48, 46, 48, 46, 49, 57 >>, << 49, 46, 50 >>,
      << 55 >>, << 48, 49, 46, 48, 50, 46, 48, 51 >>,
      << 49, 46, 50, 46, 51, 46, 52 >>, << >>, << 49, 46, 120, 46, 51 >> }

\* 'major', 'minor', 'patch' and two other values
BumpTypes == {"major", "minor", "patch", "Major", "build"}

\* the release builder before the call
BumpInit == NoBridge /\ UnitOff("off")

\* what the steps of bump_version leave alone
BumpFrame ==
    UNCHANGED <<bridgeVars, cfgVars, rxVars, outVars, grVars, kiaVars, rpos, upc,
                rtl_data, ser_tx, ser_rx, avail, chunk, sent, resp_str, is_open,
                streaming>>

\* bump_version(v, t) is called
BumpCall(v, t) ==
    /\ bump_pc = "off"
    /\ version' = v
    /\ bump_type' = t
    /\ bump_pc' = "parse"
    /\ UNCHANGED <<parts, bumped>>
    /\ BumpFrame

\* parts = [int(x) for x in version.split(".")]; int raises ValueError
BumpParse ==
    /\ bump_pc = "parse"
    /\ LET xs == Split(version)
       IN IF \A i \in 1..Len(xs) : IsDigits(xs[i])
            THEN /\ parts' = [i \in 1..Len(xs) |-> IntOf(xs[i])]
                 /\ bump_pc' = "pad"
            ELSE /\ bump_pc' = "raised"
                 /\ UNCHANGED parts
    /\ UNCHANGED <<version, bump_type, bumped>>
    /\ BumpFrame

\* while len(parts) < 3: parts.append(0)
BumpPad ==
    /\ bump_pc = "pad"
    /\ IF Len(parts) < 3
         THEN /\ parts' = Append(parts, 0)
              /\ UNCHANGED bump_pc
         ELSE /\ bump_pc' = "bump"
              /\ UNCHANGED parts
    /\ UNCHANGED <<version, bump_type, bumped>>
    /\ BumpFrame

\* the bump, and return f"{parts[0]}.{parts[1]}.{parts[2]}"
BumpReturn ==
    /\ bump_pc = "bump"
    /\ parts' = Bumped(parts, bump_type)
    /\ bumped' = Format(parts')
    /\ bump_pc' = "returned"
    /\ UNCHANGED <<version, bump_type>>
    /\ BumpFrame

bump_version == BumpParse \/ BumpPad \/ BumpReturn

BumpNext ==
    \/ \E v \in Versions, t \in BumpTypes : BumpCall(v, t)
    \/ bump_version

BumpSpec == BumpInit /\ [][BumpNext]_vars

(* ============================================ the launcher's tool threads *)
\* SDRLauncherGUI._launch starts one thread per selected tool; each runs
\* _run_tool, which redirects the process-wide sys.stdout to its own
\* _LogWriter and puts back what it saved.  sys.stdout is "console" or the
\* writer of a tool, named by the tool.

\* the launcher's window is up, nothing launched
LaunchInit == NoBridge /\ UnitOff("gui")

\* what the launcher's steps leave alone
LaunchFrame ==
    UNCHANGED <<mode, pc, running, client, nsess, sockOpen, serverOpen, serOpen, cst,
                wire, strVars, intr, escaped, endCause, data, handed, cfgVars,
                rxVars, rpos, fnVars, rtl_data, ser_tx, ser_rx, avail, chunk, sent,
                resp_str, is_open, streaming>>

\* _launch(): self._stop_flag = False; for tool in selected:
\*     threading.Thread(target=self._run_tool, ...).start()
launch(selected) ==
    /\ upc = "gui"
    /\ selected # {}
    /\ stopFlag' = FALSE
    /\ tool_pc' = [t \in Tools |-> IF t \in selected THEN "start" ELSE "idle"]
    /\ upc' = "launched"
    /\ UNCHANGED <<sys_stdout, old_stdout>>
    /\ LaunchFrame

\* old_stdout = sys.stdout
ToolSave(t) ==
    /\ tool_pc[t] = "start"
    /\ old_stdout' = [old_stdout EXCEPT ![t] = sys_stdout]
    /\ tool_pc' = [tool_pc EXCEPT ![t] = "saved"]
    /\ UNCHANGED <<upc, stopFlag, sys_stdout>>
    /\ LaunchFrame

\* sys.stdout = _LogWriter(self._log); then the try block runs the tool
ToolRedirect(t) ==
    /\ tool_pc[t] = "saved"
    /\ sys_stdout' = t
    /\ tool_pc' = [tool_pc EXCEPT ![t] = "body"]
    /\ UNCHANGED <<upc, stopFlag, old_stdout>>
    /\ LaunchFrame

\* the tool returned or raised; finally: sys.stdout = old_stdout
ToolRestore(t) ==
    /\ tool_pc[t] = "body"
    /\ sys_stdout' = old_stdout[t]
    /\ tool_pc' = [tool_pc EXCEPT ![t] = "finished"]
    /\ UNCHANGED <<upc, stopFlag, old_stdout>>
    /\ LaunchFrame

run_tool(t) == ToolSave(t) \/ ToolRedirect(t) \/ ToolRestore(t)

LaunchNext ==
    \/ \E selected \in SUBSET Tools : launch(selected)
    \/ \E t \in Tools : run_tool(t)

LaunchSpec == LaunchInit /\ [][LaunchNext]_vars

(* ================================================================ claims *)
\* the streamer thread of session k has ended or never ran
Ended(k) == stream_t[k] \in {"none", "dead", "killed"}

(* C1: on every accepted socket the first 12 bytes written are the handshake  *)
(* 52 54 4C 30 00 00 00 01 00 00 00 01, and they are on the socket before the *)
(* session's streamer thread is started: nothing precedes them.               *)
C1_HandshakeFirst ==
    \A k \in Sessions :
        /\ wire[k] # << >> =>
              Take(wire[k], 12) = << 82, 84, 76, 48, 0, 0, 0, 1, 0, 0, 0, 1 >>
        /\ stream_t[k] # "none" => wire[k] # << >>

(* C2: the streamer thread started for session k never writes a byte to the   *)
(* socket of another session, also when the join on it timed out.             *)
C2_NoInterleave ==
    [][\A k \in Sessions :
          /\ stream_t[k] = "send" /\ stream_t'[k] = "loop" => client = k
          /\ stream_t[k] = "blocked" /\ stream_t'[k] = "loop" => sendTo[k] = k]_vars

(* C3: for every session whose streamer thread has ended, that thread issued  *)
(* rx_stop exactly once, however it ended.                                    *)
C3_RxStopOnce == \A k \in Sessions : stream_t[k] = "dead" => rx_stops[k] = 1

(* C4: no per-client failure leaves handle_client as an exception: none       *)
(* reaches the accept loop or triggers cleanup().                             *)
C4_FailureConfined == ~escaped

(* C5: at most one accepted client socket is open at any moment, and accept() *)
(* is only called with no client socket open: a client that connects during  *)
(* a session waits in the backlog until that session's teardown is over.     *)
C5_OneClient ==
    /\ \A j, k \in Sessions : sockOpen[j] /\ sockOpen[k] => j = k
    /\ \A k \in Sessions : sockOpen[k] => k = nsess
    /\ pc = "accept" => client = None /\ \A k \in Sessions : ~sockOpen[k]

\* the second client connected while the first session was being served, and
\* is served after it
C5_Witness ==
    /\ nsess = 2 /\ pc = "select" /\ sockOpen[2] /\ ~sockOpen[1]
    /\ cst[1] = "conn"

(* C6: once the server has cleared the flag of session k (running = False),  *)
(* the streamer of that session terminates: it cannot stay blocked, in       *)
(* particular not in its socket send.                                        *)
C6_CancelObserved ==
    \A k \in Sessions :
        [](nsess = k /\ pc = "join" => <>Ended(k))

(* C7: a closed or reset client connection and an ended streamer thread each *)
(* make the command loop leave; the server is then back in the accept loop   *)
(* with the flag cleared, the client socket closed and self.client None      *)
(* (unless a Ctrl-C ends the server first).                                  *)
C7_TriggersDrain ==
    \A k \in Sessions :
        [](nsess = k /\ pc = "select" /\ (cst[k] = "gone" \/ stream_t[k] = "dead")
             => <>(\/ /\ pc = "accept" /\ nsess = k
                      /\ ~running /\ client = None /\ ~sockOpen[k]
                   \/ intr))

\* a session left because its streamer thread ended, and the server is back
C7_Witness ==
    /\ pc = "accept" /\ endCause = "streamer" /\ ~intr
    /\ ~running /\ client = None /\ ~sockOpen[nsess]

(* C8: after a stop request the launcher's accept loop reaches cleanup and   *)
(* ends, also while a client is being served.                                *)
C8_StopReachesShutdown == [](stopFlag => <>(pc = "done"))

(* C9: a serial fault ends neither the command loop nor the streamer loop of *)
(* a session: the operation is skipped and the session goes on.              *)
C9_SerialFaultSkipped ==
    /\ endCause # "serial"
    /\ \A k \in Sessions : stream_t[k] # "finally_serial"

(* C10: a received buffer of length 5N + r (0 <= r <= 4) hands exactly N     *)
(* frames to handle_rtl_command, frame k being bytes 5k..5k+4; the r         *)
(* trailing bytes are in no frame.                                           *)
C10_FramesHanded ==
    data # << >> =>
        /\ Len(handed) = Len(data) \div 5
        /\ \A k \in 1..Len(handed) :
              handed[k] = [i \in 1..5 |-> data[5 * (k - 1) + i]]

\* the slicing of C10 taken alone: a buffer whose frames raise no serial
\* fault is handed over as exactly its N frames
C10_FaultFreeFrames == endCause # "serial" => C10_FramesHanded

\* the natural number a decimal text denotes (below 2^31)
RECURSIVE NatOf(_)
NatOf(txt) == IF txt = << >> THEN 0 ELSE NatOf(Front(txt)) * 10 + (txt[Len(txt)] - 48)

\* the big-endian value of bytes 1..4 of a frame whose byte 1 is below 128
ParamOf(d) == d[2] * 16777216 + d[3] * 65536 + d[4] * 256 + d[5]

\* line is the text `name`, then the decimal text of n, then a newline
IsCommand(line, name, n) ==
    /\ Len(line) >= Len(name) + 2
    /\ SubSeq(line, 1, Len(name)) = name
    /\ line[Len(line)] = 10
    /\ LET arg == SubSeq(line, Len(name) + 1, Len(line) - 1)
       IN  /\ \A i \in 1..Len(arg) : arg[i] \in 48..57
           /\ Len(arg) > 1 => arg[1] # 48
           /\ NatOf(arg) = n

\* handle_rtl_command returned normally from a full frame with this opcode
Handled(op) == upc = "returned" /\ Len(rtl_data) = 5 /\ rtl_data[1] = op

\* handle_rtl_command is over, normally or not, for a full frame with this
\* opcode and a parameter below 2^31
Over(op) ==
    /\ upc \in {"returned", "raised"}
    /\ Len(rtl_data) = 5 /\ rtl_data[1] = op /\ rtl_data[2] < 128

\* the serial port got the command `name n` and nothing else: once after a
\* normal return, at most once when the write raised
SentOnly(name, n) ==
    /\ Len(ser_tx) <= 1
    /\ upc = "returned" => Len(ser_tx) = 1
    /\ \A i \in 1..Len(ser_tx) : IsCommand(ser_tx[i], name, n)

(* C11 as stated: the frame 01 00 06 A4 50 makes the device receive           *)
(* 'set_freq 433920000', and the parameter of a frame is the big-endian       *)
(* uint32 value of its bytes 1..4.                                            *)
C11_FrequencyParsed ==
    /\ Handled(1) /\ rtl_data = << 1, 0, 6, 164, 80 >> =>
          ser_tx = << << 115, 101, 116, 95, 102, 114, 101, 113, 32, 52, 51, 51, 57, 50, 48, 48, 48, 48, 10 >> >>  \* 'set_freq 433920000\n'
    /\ Over(1) => SentOnly(<< 115, 101, 116, 95, 102, 114, 101, 113, 32 >>,  \* 'set_freq '
                            ParamOf(rtl_data))

(* C11 amended: the frame 01 00 06 A4 50 makes the device receive             *)
(* 'set_freq 435280' (0x0006A450); 433920000 is 0x19DD1800, the frame         *)
(* 01 19 DD 18 00.  The parameter of a frame is the exact big-endian uint32   *)
(* value of its bytes 1..4, up to 4294967295.                                 *)
C11_FrequencyExact ==
    /\ Handled(1) /\ rtl_data = << 1, 0, 6, 164, 80 >> =>
          ser_tx = << << 115, 101, 116, 95, 102, 114, 101, 113, 32, 52, 51, 53, 50, 56, 48, 10 >> >>  \* 'set_freq 435280\n'
    /\ Handled(1) /\ rtl_data = << 1, 25, 221, 24, 0 >> =>
          ser_tx = << << 115, 101, 116, 95, 102, 114, 101, 113, 32, 52, 51, 51, 57, 50, 48, 48, 48, 48, 10 >> >>  \* 'set_freq 433920000\n'
    /\ Handled(1) /\ rtl_data = << 1, 128, 0, 0, 0 >> =>
          ser_tx = << << 115, 101, 116, 95, 102, 114, 101, 113, 32, 50, 49, 52, 55, 52, 56, 51, 54, 52, 56, 10 >> >>  \* 'set_freq 2147483648\n'
    /\ Handled(1) /\ rtl_data = << 1, 255, 255, 255, 255 >> =>
          ser_tx = << << 115, 101, 116, 95, 102, 114, 101, 113, 32, 52, 50, 57, 52, 57, 54, 55, 50, 57, 53, 10 >> >>  \* 'set_freq 4294967295\n'
    /\ Over(1) => SentOnly(<< 115, 101, 116, 95, 102, 114, 101, 113, 32 >>,  \* 'set_freq '
                            ParamOf(rtl_data))

\* the frame of 433.92 MHz was handled and its line written
C11_Witness ==
    /\ Handled(1) /\ rtl_data = << 1, 25, 221, 24, 0 >> /\ Len(ser_tx) = 1

(* C12: a frame with opcode 0x04 and parameter p sends the gain floor(p / 10) *)
(* (150 gives 'set_gain 15', 0..9 give 0); opcodes 0x01 and 0x02 forward      *)
(* their parameter unchanged as set_freq and set_sample_rate.                 *)
C12_GainIsQuotient ==
    /\ Handled(4) /\ rtl_data = << 4, 0, 0, 0, 150 >> =>
          ser_tx = << << 115, 101, 116, 95, 103, 97, 105, 110, 32, 49, 53, 10 >> >>  \* 'set_gain 15\n'
    /\ Handled(4) /\ rtl_data[2] = 0 /\ rtl_data[3] = 0 /\ rtl_data[4] = 0
                  /\ rtl_data[5] < 10 =>
          ser_tx = << << 115, 101, 116, 95, 103, 97, 105, 110, 32, 48, 10 >> >>  \* 'set_gain 0\n'
    /\ Handled(4) /\ rtl_data = << 4, 255, 255, 255, 255 >> =>
          ser_tx = << << 115, 101, 116, 95, 103, 97, 105, 110, 32, 52, 50, 57, 52, 57, 54, 55, 50, 57, 10 >> >>  \* 'set_gain 429496729\n'
    /\ Over(4) => SentOnly(<< 115, 101, 116, 95, 103, 97, 105, 110, 32 >>,  \* 'set_gain '
                            ParamOf(rtl_data) \div 10)
    /\ Over(1) => SentOnly(<< 115, 101, 116, 95, 102, 114, 101, 113, 32 >>,  \* 'set_freq '
                            ParamOf(rtl_data))
    /\ Over(2) => SentOnly(<< 115, 101, 116, 95, 115, 97, 109, 112, 108, 101, 95, 114, 97, 116, 101, 32 >>,  \* 'set_sample_rate '
                            ParamOf(rtl_data))
    /\ Handled(2) /\ rtl_data = << 2, 0, 3, 208, 144 >> =>
          ser_tx = << << 115, 101, 116, 95, 115, 97, 109, 112, 108, 101, 95, 114, 97, 116, 101, 32, 50, 53, 48, 48, 48, 48, 10 >> >>  \* 'set_sample_rate 250000\n'

\* a gain frame whose parameter is no multiple of 10 was handled
C12_Witness ==
    /\ Handled(4) /\ rtl_data = << 4, 0, 0, 0, 159 >> /\ Len(ser_tx) = 1

(* C13: a frame whose opcode is 0x05 or any other value outside               *)
(* {0x01, 0x02, 0x04} raises nothing, writes nothing to the serial device and *)
(* changes no state of the bridge or of the device session.                   *)
C13_OtherOpcodesInert ==
    [][upc = "call" /\ Len(rtl_data) = 5 /\ rtl_data[1] \notin {1, 2, 4} =>
          /\ upc' = "returned"
          /\ ser_tx' = ser_tx
          /\ UNCHANGED <<running, client, serOpen, serverOpen, sockOpen, pc,
                         is_open, streaming, ser_rx>>]_vars

\* the unknown opcode 0xFF and the no-op 0x05 were handled
C13_Witness ==
    /\ upc = "returned" /\ Len(rtl_data) = 5 /\ rtl_data[1] \in {5, 255}
    /\ ser_tx = << >>

(* C14: in every streamer iteration in which the device has no bytes          *)
(* available (in_waiting is 0), the streamer hands one buffer of 64 pairs,    *)
(* 128 bytes, all equal to 127, to the client socket: such an iteration       *)
(* never skips the write and never writes another value.                      *)
C14_SilenceWhenEmpty ==
    /\ [](upc \in {"send", "sent"} /\ avail = 0 =>
             /\ Len(IterBuf) = 128
             /\ \A i \in 1..128 : IterBuf[i] = 127)
    /\ [](upc = "sent" /\ avail = 0 =>
             sent = << [i \in 1..128 |-> 127] >>)
    /\ [][upc = "poll" /\ upc' \notin {"poll", "finally"} /\ avail' = 0 =>
             upc' = "send"]_vars
    /\ [][upc = "send" /\ upc' \notin {"send", "finally"} /\ avail = 0 =>
             upc' = "sent" /\ Len(sent') = 1]_vars

\* an iteration that found the device empty has written its buffer
C14_Witness == upc = "sent" /\ avail = 0 /\ Len(sent) = 1 /\ ser_rx = << >>

InRun ==
    upc \in {"run", "enable", "identify", "config", "bind", "accept",
             "io_failed", "id_failed", "bind_failed"}

\* the last reply read holds the marker, in either case of letters
MarkerSeen ==
    resp_str \in {
        << 72, 65, 67, 75, 82, 70, 95, 83, 85, 67, 67, 69, 83, 83 >>,  \* 'HACKRF_SUCCESS'
        << 104, 97, 99, 107, 114, 102, 95, 115, 117, 99, 99, 101, 115, 115 >>,  \* 'hackrf_success'
        << 72, 65, 67, 75, 82, 70, 95, 69, 82, 82, 79, 82 >> }  \* 'HACKRF_ERROR'

\* how often the identity query was written
IdentityQueries ==
    Cardinality({ i \in 1..Len(ser_tx) :
        ser_tx[i] = << 98, 111, 97, 114, 100, 95, 105, 100, 95, 114, 101, 97, 100, 10 >> })  \* 'board_id_read\n'

(* C16: run() calls accept() only after connect_device succeeded, identity    *)
(* verified, and start_server bound the listener; when either fails run()     *)
(* returns and accept() is never called.                                      *)
C16_AcceptNeedsBoth ==
    /\ [](InRun /\ (upc = "accept" \/ pc = "accept") =>
             /\ upc = "accept" /\ pc = "accept"
             /\ serOpen /\ serverOpen
             /\ MarkerSeen /\ IdentityQueries = 1)
    /\ [][(upc \in {"io_failed", "id_failed", "bind_failed"}) =>
             (upc' = upc /\ pc' = "start")]_vars

\* the server is accepting
C16_Witness == upc = "accept" /\ pc = "accept" /\ serverOpen /\ serOpen

(* C17: when the reply to the identity query lacks the marker, connect sends  *)
(* the identity query once more and fails only if the retry's reply lacks     *)
(* the marker as well: a connect that failed on the identity has sent the     *)
(* query twice.                                                               *)
C17_IdentityRetried ==
    upc \in {"id_failed", "sdr_refused"} => IdentityQueries = 2

(* C18: on a successful connect the commands written are, in this order,      *)
(* sdr_enable, board_id_read, set_freq 433920000, set_sample_rate 250000,     *)
(* set_gain 15; the three configuration commands are written only after an    *)
(* identity reply with the marker, and none of them when the identity         *)
(* verification fails.                                                        *)
C18_ConnectSequence ==
    /\ upc \in {"bind", "accept", "bind_failed"} =>
          ser_tx = << << 115, 100, 114, 95, 101, 110, 97, 98, 108, 101, 10 >>,  \* 'sdr_enable\n'
                      << 98, 111, 97, 114, 100, 95, 105, 100, 95, 114, 101, 97, 100, 10 >>,  \* 'board_id_read\n'
                      << 115, 101, 116, 95, 102, 114, 101, 113, 32, 52, 51, 51, 57, 50, 48, 48, 48, 48, 10 >>,  \* 'set_freq 433920000\n'
                      << 115, 101, 116, 95, 115, 97, 109, 112, 108, 101, 95, 114, 97, 116, 101, 32, 50, 53, 48, 48, 48, 48, 10 >>,  \* 'set_sample_rate 250000\n'
                      << 115, 101, 116, 95, 103, 97, 105, 110, 32, 49, 53, 10 >> >>  \* 'set_gain 15\n'
    /\ InRun /\ Len(ser_tx) > 2 =>
          /\ MarkerSeen
          /\ ser_tx[1] = << 115, 100, 114, 95, 101, 110, 97, 98, 108, 101, 10 >>  \* 'sdr_enable\n'
          /\ ser_tx[2] = << 98, 111, 97, 114, 100, 95, 105, 100, 95, 114, 101, 97, 100, 10 >>  \* 'board_id_read\n'
    /\ upc = "id_failed" =>
          /\ ~MarkerSeen
          /\ ser_tx = << << 115, 100, 114, 95, 101, 110, 97, 98, 108, 101, 10 >>,  \* 'sdr_enable\n'
                         << 98, 111, 97, 114, 100, 95, 105, 100, 95, 114, 101, 97, 100, 10 >> >>  \* 'board_id_read\n'

\* connect_device returned True
C18_Witness == upc = "bind" /\ Len(ser_tx) = 5 /\ serOpen

(* C19: EvilCrowSDR.close() runs its three steps best-effort (stop streaming, *)
(* send sdr_disable, close the serial handle): the serial handle is closed    *)
(* after every call to close(), also when rx_stop raised.                     *)
C19_CloseAlwaysCloses ==
    upc \in {"closed", "close_raised"} => ~is_open /\ ~streaming

(* C20: cleanup() attempts every step of the shutdown whatever failed before  *)
(* (cancel the active client, rx_stop, close the listener, close the device   *)
(* session): once it is over nothing is left open, in particular not the      *)
(* serial handle after a failing rx_stop write.                               *)
C20_ShutdownClosesAll ==
    pc = "done" =>
        /\ ~running
        /\ \A k \in Sessions : ~sockOpen[k]
        /\ ~serverOpen
        /\ ~serOpen

(* C21: the device session outlives every client connection: whenever a       *)
(* per-client loop still runs (the command loop of the server, or a streamer  *)
(* thread of any session), the serial handle is open; a cleanup that closed   *)
(* the port under a live streamer thread would leave such a state.            *)
C21_SessionOutlivesClients ==
    /\ pc \in {"select", "alive"} => serOpen
    /\ \A k \in Sessions : ~Ended(k) => serOpen

\* the bytes of a sequence of chunks, in order
RECURSIVE Flat(_)
Flat(q) == IF q = << >> THEN << >> ELSE Head(q) \o Flat(Tail(q))

\* the bytes are in the order in which the device delivered them
InOrder(bs) == \A i, j \in 1..Len(bs) : i < j => bs[i] < bs[j]

(* C22: the drain queue is bounded and drop-oldest under any interleaving of  *)
(* the worker with a consumer: its length never exceeds its capacity; a push  *)
(* that finds the queue full discards the oldest queued chunk, exactly that   *)
(* one, and then admits the new chunk at the tail; the chunks that remain     *)
(* keep their order; the worker always has a next step and never ends         *)
(* because the queue was full.                                                *)
C22_DropOldest ==
    /\ [](Len(rx_queue) <= MaxQueue)
    /\ [](InOrder(Flat(rx_queue)) /\ \A i \in 1..Len(rx_queue) : rx_queue[i] # << >>)
    /\ [](\A w \in Workers :
             /\ wpc[w] # "broke_full"
             /\ wpc[w] \in {"put", "evict", "reput"} => ENABLED Worker(w))
    /\ [][\A w \in Workers :
             /\ (wpc[w] = "put" /\ wpc'[w] # "put") =>
                   \/ wpc'[w] = "test" /\ rx_queue' = Append(rx_queue, wdata[w])
                   \/ /\ wpc'[w] = "evict" /\ Len(rx_queue) = MaxQueue
                      /\ rx_queue' = rx_queue
             /\ (wpc[w] = "evict" /\ wpc'[w] # "evict") =>
                   /\ wpc'[w] = "reput"
                   /\ rx_queue # << >> => rx_queue' = Tail(rx_queue)
                   /\ rx_queue = << >> => rx_queue' = << >>
             /\ (wpc[w] = "reput" /\ wpc'[w] # "reput") =>
                   wpc'[w] = "test" /\ rx_queue' = Append(rx_queue, wdata[w])]_vars

\* a push found the queue full and was admitted: the queue is full again,
\* chunk 1 is gone from it and the consumer never took anything
C22_Witness ==
    /\ wpc[1] = "test" /\ Len(rx_queue) = MaxQueue
    /\ rx_queue[1][1] > 1
    /\ upc = "sdr_used" /\ streaming
    /\ rx_queue[MaxQueue] = wdata[1]

\* the setter followed is over: it returned True or False, or it raised
SetterOver(op) ==
    upc \in {"cfg_true", "cfg_false", "cfg_raised"} /\ cfg_call[1] = op

\* the last reply read contains 'SUCCESS'
ReplySuccess == Contains(resp_str, << 83, 85, 67, 67, 69, 83, 83 >>)

(* C23: the recorded configuration is updated only after a successful         *)
(* command: set_frequency with a frequency outside 300-348, 387-464 and       *)
(* 779-928 MHz returns False, writes nothing and leaves frequency_hz as it    *)
(* was; each of set_frequency, set_modulation, set_bandwidth, set_data_rate   *)
(* leaves its recorded value as it was unless the reply contains SUCCESS, and *)
(* never touches the other recorded values.                                   *)
C23_RecordedAfterSuccess ==
    /\ SetterOver("set_frequency")
         /\ ~(\/ 300000000 <= cfg_call[2] /\ cfg_call[2] <= 348000000
              \/ 387000000 <= cfg_call[2] /\ cfg_call[2] <= 464000000
              \/ 779000000 <= cfg_call[2] /\ cfg_call[2] <= 928000000) =>
          upc = "cfg_false" /\ ser_tx = << >> /\ frequency_hz = 433920000
    /\ SetterOver("set_frequency") =>
          /\ frequency_hz = IF ReplySuccess THEN cfg_call[2] ELSE 433920000
          /\ modulation = 2 /\ bandwidth_khz = 6500 /\ data_rate_baud = 379372
    /\ SetterOver("set_modulation") =>
          /\ modulation # 2 => ReplySuccess
          /\ ReplySuccess => modulation \in 0..4
          /\ ReplySuccess /\ cfg_call[2] = << 77, 83, 75 >> => modulation = 4  \* 'MSK'
          /\ frequency_hz = 433920000 /\ bandwidth_khz = 6500 /\ data_rate_baud = 379372
    /\ SetterOver("set_bandwidth") =>
          /\ bandwidth_khz = IF ReplySuccess THEN cfg_call[2] ELSE 6500
          /\ frequency_hz = 433920000 /\ modulation = 2 /\ data_rate_baud = 379372
    /\ SetterOver("set_data_rate") =>
          /\ data_rate_baud = IF ReplySuccess THEN cfg_call[2] ELSE 379372
          /\ frequency_hz = 433920000 /\ modulation = 2 /\ bandwidth_khz = 6500
    /\ upc \in {"cfg_false", "cfg_raised"} =>
          /\ frequency_hz = 433920000 /\ modulation = 2
          /\ bandwidth_khz = 6500 /\ data_rate_baud = 379372
    /\ upc = "cfg_true" => ReplySuccess

\* an in-band set_frequency that the device refused, and one it accepted
C23_Witness ==
    \/ /\ SetterOver("set_frequency") /\ cfg_call[2] = 868350000
       /\ upc = "cfg_false" /\ Len(ser_tx) = 1 /\ frequency_hz = 433920000
    \/ /\ SetterOver("set_frequency") /\ cfg_call[2] = 868350000
       /\ upc = "cfg_true" /\ frequency_hz = 868350000

\* the streamer of session k has written rx_start and is in its try block
RxStarted(k) ==
    stream_t[k] \in {"loop", "send", "blocked", "finally", "finally_serial",
                     "finally_attr"}

(* C24: the start and stop commands of consecutive sessions are nested: when  *)
(* the streamer of a session has written its rx_start, the streamer of every  *)
(* earlier session has already issued its rx_stop, also when the 2 s join on  *)
(* the earlier streamer timed out; no earlier streamer is still on its way    *)
(* to a late rx_stop.                                                         *)
C24_StopBeforeNextStart ==
    \A j, k \in Sessions :
        j < k /\ RxStarted(k) /\ stream_t[j] # "none" =>
            rx_stops[j] >= 1 /\ Ended(j)

(* C25: command framing does not depend on how TCP segments the stream: once  *)
(* the command loop has read all of the three frames 01 00 06 A4 50,          *)
(* 04 00 00 00 96, FF 00 00 00 01 without a serial fault, in whatever pieces  *)
(* recv() returned them, the device has received exactly the commands of      *)
(* these frames in their order: 'set_freq 435280', then 'set_gain 15'.        *)
C25_FramingUnsegmented ==
    rpos = 15 /\ pc \in {"alive", "select"} =>
        ser_tx = << << 115, 101, 116, 95, 102, 114, 101, 113, 32, 52, 51, 53, 50, 56, 48, 10 >>,  \* 'set_freq 435280\n'
                    << 115, 101, 116, 95, 103, 97, 105, 110, 32, 49, 53, 10 >> >>  \* 'set_gain 15\n'

(* C26: every I byte streamed to the client is a received-data byte of the    *)
(* device (0, 127 or 255 from this device) or the silence value 127: no byte  *)
(* of the device's textual reply to a configuration command of the session    *)
(* is forwarded as a sample.                                                  *)
C26_OnlySamplesStreamed ==
    upc = "sent" =>
        \A i \in 1..Len(sent[1]) : i % 2 = 1 => sent[1][i] \in {0, 127, 255}

(* C27: after any sequence of start_rx and stop_rx calls, start_rx twice in a *)
(* row included, at most one drain worker thread is alive; and once stop_rx   *)
(* has returned no worker is alive, so that no further chunk reaches the      *)
(* queue.                                                                     *)
C27_OneWorker ==
    /\ Cardinality({ w \in Workers : Alive(w) }) <= 1
    /\ upc = "stopped" => \A w \in Workers : ~Alive(w)

(* C28: read_raw(count) returns at most count bytes and loses none: the bytes *)
(* a call returns are exactly the bytes of the chunks it removed from the     *)
(* queue, so that over any sequence of calls the returned byte strings        *)
(* concatenate to the removed chunks.                                         *)
C28_ReadRawLossless ==
    upc = "rr_done" => Len(ret) <= count /\ ret = result

\* how often the line was written to the device
TimesSent(line) == Cardinality({ i \in 1..Len(ser_tx) : ser_tx[i] = line })

(* C29: EvilCrowSDR.close() is idempotent: after a first close() that         *)
(* completed, a second close() writes no command, raises nothing and leaves   *)
(* the object as it was, not streaming and with the serial handle closed;     *)
(* over both calls rx_stop and sdr_disable are each sent at most once.        *)
C29_CloseIdempotent ==
    /\ [](upc \in {"closed", "closed_again"} =>
             /\ ~is_open /\ ~streaming
             /\ TimesSent(<< 114, 120, 95, 115, 116, 111, 112, 10 >>) <= 1  \* 'rx_stop\n'
             /\ TimesSent(<< 115, 100, 114, 95, 100, 105, 115, 97, 98, 108, 101, 10 >>) <= 1)  \* 'sdr_disable\n'
    /\ [][(upc = "closed") =>
             /\ upc' \in {"closed", "closed_again"}
             /\ ser_tx' = ser_tx
             /\ is_open' = is_open /\ streaming' = streaming]_vars

\* close() was called twice on an object that was streaming: the first call
\* sent rx_stop and sdr_disable
C29_Witness ==
    /\ upc = "closed_again"
    /\ TimesSent(<< 114, 120, 95, 115, 116, 111, 112, 10 >>) = 1
    /\ TimesSent(<< 115, 100, 114, 95, 100, 105, 115, 97, 98, 108, 101, 10 >>) = 1

(* C30: the launcher's stdout redirect is undone when several tools run at    *)
(* once: whatever the interleaving of the tool threads of one _launch call,   *)
(* sys.stdout is what it was before the launch once all of them have          *)
(* finished.                                                                  *)
C30_StdoutRestored ==
    upc = "launched" /\ (\A t \in Tools : tool_pc[t] \in {"idle", "finished"}) =>
        sys_stdout = "console"

(* C31: work() always produces exactly n = len(output) items: it never takes  *)
(* more than n samples from the queue, never raises, and when it has returned *)
(* it returned n, the samples it took are at the front of the output in the   *)
(* order taken and every remaining position is zero; with no sample taken     *)
(* before the deadline the whole output is zero.                              *)
C31_WorkFillsOutput ==
    /\ gr_pc # "work_raised"
    /\ Len(samples) <= work_n
    /\ gr_pc = "returned" =>
          /\ work_ret = work_n
          /\ Len(out) = work_n
          /\ \A i \in 1..work_n :
                out[i] = IF i <= Len(samples) THEN samples[i] ELSE 0
          /\ samples = << >> => out = Zeros(work_n)

\* a call for three items that got two samples, the first not zero
C31_Witness ==
    /\ gr_pc = "returned"
    /\ work_n = MaxOut
    /\ Len(samples) = MaxOut - 1
    /\ samples[1] # 0
    /\ out[MaxOut] = 0

(* C32: the KiaV0 data word round-trips its fields: for every counter in      *)
(* 0..2^16-1, serial in 0..2^28-1 and button in 0..15 the four assertions     *)
(* hold, the word's bits 55..40 are the counter, bits 39..12 the serial, bits *)
(* 11..8 the button, bits 7..0 the CRC8 of bits 55..8, bits 60..56 are zero,  *)
(* the CRC fits in 8 bits, and the pulse list has 64 + 2 + 122 + 1 = 189      *)
(* entries.                                                                   *)
C32_KiaRoundTrip ==
    (counter < 65536 /\ serial < 2 ^ 28 /\ button < 16) =>
        /\ kia_pc # "assert_failed"
        /\ kia_pc \in {"assert", "pulses", "returned"} =>
              /\ Field(kia_data, 40, 16) = counter
              /\ Field(kia_data, 12, 28) = serial
              /\ Field(kia_data, 8, 4) = button
              /\ Field(kia_data, 0, 8) = kia_v0_crc8(kia_data, 55, 8)
              /\ Field(kia_data, 0, 8) = crc
              /\ Field(kia_data, 56, 8) = 0
              /\ crc \in 0..255
        /\ kia_pc = "returned" => Len(pulses) = 189

\* the largest arguments went through: every field is all ones
C32_Witness ==
    /\ kia_pc = "returned"
    /\ counter = 65535
    /\ serial = 268435455
    /\ button = 15
    /\ crc # 0

\* the three numbers of a version text of at most three components
Padded(txt) ==
    LET xs == Split(txt)
    IN [i \in 1..3 |-> IF i <= Len(xs) THEN IntOf(xs[i]) ELSE 0]

\* a version text the claim speaks of: one to three components, all numbers
IsVersion(txt) ==
    LET xs == Split(txt)
    IN Len(xs) <= 3 /\ \A i \in 1..Len(xs) : IsDigits(xs[i])

\* p comes before q in semantic-version order
Before(p, q) ==
    \/ p[1] < q[1]
    \/ p[1] = q[1] /\ p[2] < q[2]
    \/ p[1] = q[1] /\ p[2] = q[2] /\ p[3] < q[3]

(* C33: bump_version on a version a.b.c returns a+1.0.0 for 'major', a.b+1.0  *)
(* for 'minor' and a.b.c+1 for 'patch'; a version of fewer than three         *)
(* components is padded with zeros first; any other bump_type returns the     *)
(* padded version unchanged (for a three-component text written without       *)
(* leading zeros, the very text); for the three valid types the result comes  *)
(* strictly after the input in semantic-version order.                        *)
C33_BumpVersion ==
    IsVersion(version) =>
        /\ bump_pc # "raised"
        /\ bump_pc = "returned" =>
              LET p == Padded(version)
                  valid == bump_type \in {"major", "minor", "patch"}
              IN /\ bumped =
                       Format(IF bump_type = "major" THEN << p[1] + 1, 0, 0 >>
                              ELSE IF bump_type = "minor" THEN << p[1], p[2] + 1, 0 >>
                              ELSE IF bump_type = "patch" THEN << p[1], p[2], p[3] + 1 >>
                              ELSE p)
                 /\ IsVersion(bumped) /\ Len(Split(bumped)) = 3
                 /\ valid => Before(p, Padded(bumped))
                 /\ ~valid => Padded(bumped) = p
                 /\ (~valid /\ Format(p) = version) => bumped = version

\* a minor bump of a two-component version: padded, then bumped
C33_Witness ==
    /\ bump_pc = "returned"
    /\ version = << 49, 46, 50 >>
    /\ bump_type = "minor"
    /\ bumped = << 49, 46, 51, 46, 48 >>

====
